---- MODULE Spec2Model ----
(***************************************************************************)
(* A model of the YAEP Earley parsing library: the Leo optimization module *)
(* (src/src/leo_opt.c), the thread-local error context                     *)
(* (src/src/yaep_error.c), the Unicode helpers                             *)
(* (src/src/unicode/yaep_unicode.c), the Earley engine handle              *)
(* (src/src/earley_engine.c), and the grammar front-end and parser-list    *)
(* builder, whose implementation file (yaep.c) is not part of the          *)
(* available sources and is modelled from the specification.               *)
(*                                                                         *)
(* Each subsystem has its own variables, its own initial predicate and its *)
(* own next-state relation; a specification of one subsystem leaves the    *)
(* variables of the others unchanged.                                      *)
(***************************************************************************)
EXTENDS Integers, Sequences, FiniteSets, TLC

VARIABLES
  leo,        \* struct leo_context: enabled, initialized, counters, table
  leoCall,    \* the last leo_try_completion call: arguments, result, table before
  leoMade,    \* for every Leo item created: its key and the number of waiters seen
  leoCalls,   \* number of API calls made on the Leo context (bounds the run)
  leoSet,     \* the current Earley set of the caller: the advanced situations in it
  leoSeen     \* what happened since the last leo_init/leo_clear, counted beside the code

VARIABLES
  errCtx,     \* yaep_thread_error_ctx of every thread-local storage slot
  errPc,      \* per thread: the statement of yaep_vset_error / yaep_clear_error it is at
  errArg,     \* per thread: the arguments of the call in progress
  errOwn,     \* per thread: what its own most recent set/clear call writes
  errHook,    \* yaep_error_update_hook (global): installed or not
  gramErr,    \* per grammar: the error state embedded in the grammar handle
  errCalls    \* per thread: calls started (bounds the run)

\* The grammar handle seen by parse_grammar: its symbol and rule tables, its
\* error code and message, and the position of the call in progress.
VARIABLES gram, gErr, gPc, gToks, gDesc, gBefore, gRet, gCalls, gUsed

\* One parser on one grammar handle: the engine with its grammar pointer, the
\* finalized grammar, the tokens
\* the reader delivers, the configuration, the lifecycle phase, the parser list,
\* the position in the input, the pending error token, the recovery found for
\* it and the pending return code, what
\* parse returned, the tree, the syntax-error callback's invocations, the
\* number of error events, and the outcome of the parse before this one.
VARIABLES engine, pGrammar, pInput, pCfg, pPhase, pList, pTok, pErrTok, pRec, pCode, pRc,
          pTree, pCalls, pEvents, pPrev

\* One memory pool and its client: the pool handle (struct mem_pool, or NULL),
\* the next pointers stored in freed items, the items the client holds, the
\* host allocator's blocks, the last call with the state before it, what has
\* happened on the pool counted beside the code, and the number of calls.
VARIABLES pool, poolMem, poolLive, poolHost, poolLast, poolSeen, poolCalls

\* One NUL-terminated byte string and a client that walks it: the bytes before
\* the NUL, the position of the client's pointer, and the last call made on
\* the string with what it returned.
VARIABLES uStr, uPos, uCall

\* The error boundaries of one thread: yaep_boundary_top, the prev field of
\* every boundary that is alive, the yaep_run_with_error_boundary calls whose
\* protected function is running (outermost first), the last call that
\* ended, the number of calls, and whether the process has aborted.
VARIABLES bTop, bPrev, bFrames, bLast, bCalls, bAborted

leoVars == <<leo, leoCall, leoMade, leoCalls, leoSet, leoSeen>>

errVars == <<errCtx, errPc, errArg, errOwn, errHook, gramErr, errCalls>>

gramVars == <<gram, gErr, gPc, gToks, gDesc, gBefore, gRet, gCalls, gUsed>>

parseVars == <<engine, pGrammar, pInput, pCfg, pPhase, pList, pTok, pErrTok, pRec, pCode,
               pRc, pTree, pCalls, pEvents, pPrev>>

poolVars == <<pool, poolMem, poolLive, poolHost, poolLast, poolSeen, poolCalls>>

utfVars == <<uStr, uPos, uCall>>

bndVars == <<bTop, bPrev, bFrames, bLast, bCalls, bAborted>>

vars == <<leoVars, errVars, gramVars, parseVars, poolVars, utfVars, bndVars>>

\* The variables each subsystem leaves alone.
notLeoVars == <<errVars, gramVars, parseVars, poolVars, utfVars, bndVars>>

notErrVars == <<leoVars, gramVars, parseVars, poolVars, utfVars, bndVars>>

notGramVars == <<leoVars, errVars, parseVars, poolVars, utfVars, bndVars>>

notParseVars == <<leoVars, errVars, gramVars, poolVars, utfVars, bndVars>>

notPoolVars == <<leoVars, errVars, gramVars, parseVars, utfVars, bndVars>>

notUtfVars == <<leoVars, errVars, gramVars, parseVars, poolVars, bndVars>>

notBndVars == <<leoVars, errVars, gramVars, parseVars, poolVars, utfVars>>

(***************************************************************************)
(* Small helpers.                                                          *)
(***************************************************************************)
Min(a, b) == IF a <= b THEN a ELSE b


\* All sequences over S of length at most n.
SeqsUpTo(S, n) == UNION {[1..k -> S] : k \in 0..n}

(***************************************************************************)
(* LEO OPTIMIZATION MODULE  (src/src/leo_opt.c)                            *)
(***************************************************************************)

\* Bounds of the Leo model.
MaxWaiting == 2      \* longest waiting vector passed to leo_try_completion
MaxSetNum == 1       \* Earley set numbers are 0..MaxSetNum
MaxLeoCalls == 3     \* API calls on one Leo context in one run

LeoSymbols == {"A", "B"}

\* origin_set->core->sits[]: the situation stored at each index of the origin
\* set's core.  Situations are identified by their sit_number.
NCoreSits == 2
CoreSitAt(idx) == 100 + idx

\* The number of right-hand-side symbols the rule of a core situation still has
\* after the nonterminal it waits for (rule length minus pos minus one): the
\* situations with an even number wait at the end of their rule.
SitRemaining(sit) == sit % 2

\* The advanced variant of a waiting situation (dot moved over the awaited
\* nonterminal), as the completion step adds it to the current set.
LeoAdvance(sit) == sit + 100

\* A core_symb_vect as leo_try_completion reads it: the transitions vector
\* (the build without TRANSITIVE_TRANSITION), or a NULL pointer.  The vector
\* lists the indices of the waiting situations of the core in rising order.
WaitingVects ==
  {[null |-> TRUE, els |-> <<>>]}
    \cup {[null |-> FALSE, els |-> e] :
            e \in {q \in SeqsUpTo(0..(NCoreSits - 1), MaxWaiting) :
                     \A i, j \in DOMAIN q : i < j => q[i] < q[j]}}

\* The completed situation handed to leo_try_completion: a NULL pointer, or a
\* situation whose rule has the given left-hand side (completed_sit->rule->lhs).
CompletedSits ==
  {[null |-> TRUE, lhs |-> "A"]} \cup {[null |-> FALSE, lhs |-> s] : s \in LeoSymbols}

\* struct leo_context before leo_init: zero-initialised storage.
LeoCtx0 ==
  [enabled |-> FALSE, initialized |-> FALSE,
   n_leo_items |-> 0, n_leo_completions |-> 0,
   leo_item_table |-> {}]

\* leo_eq_entry: two items are the same table entry iff origin and symbol agree.
leo_eq_entry(a, b) == a.origin = b.origin /\ a.symbol = b.symbol

\* leo_init.
leo_init(ctx) ==
  [ctx EXCEPT !.enabled = TRUE,
              !.n_leo_items = 0,
              !.n_leo_completions = 0,
              !.leo_item_table = {},
              !.initialized = TRUE]

\* A clear that resets the counters and leaves the table.
leo_clear_keeps_table(ctx) ==
  IF ~ctx.initialized
    THEN ctx
    ELSE [ctx EXCEPT !.n_leo_items = 0, !.n_leo_completions = 0]

\* leo_clear.
leo_clear(ctx) ==
  IF ~ctx.initialized
    THEN ctx
    ELSE [ctx EXCEPT !.n_leo_items = 0,
                     !.n_leo_completions = 0,
                     !.leo_item_table = {}]

\* leo_finish.
leo_finish(ctx) ==
  IF ~ctx.initialized
    THEN ctx
    ELSE [ctx EXCEPT !.leo_item_table = {}, !.initialized = FALSE]

\* A lookup that finds nothing.
leo_lookup_misses(ctx, set_num, symbol) == {}

\* leo_lookup: the items of the table equal to the key (none: NULL).
leo_lookup(ctx, set_num, symbol) ==
  IF ~ctx.initialized
    THEN {}
    ELSE {it \in ctx.leo_item_table :
            leo_eq_entry(it, [origin |-> set_num, symbol |-> symbol])}

\* leo_insert: allocate an item, store it in the slot of its key and count it.
\* alloc_ok = FALSE is a failed allocation (new_item or slot is NULL).
leo_insert(ctx, set_num, symbol, waiting_sit, alloc_ok) ==
  IF ~ctx.initialized \/ ~alloc_ok
    THEN [ctx |-> ctx, item |-> FALSE]
    ELSE LET new_item == [origin |-> set_num, symbol |-> symbol, sit |-> waiting_sit]
             kept == {it \in ctx.leo_item_table : ~leo_eq_entry(it, new_item)}
         IN [ctx |-> [ctx EXCEPT !.leo_item_table = kept \cup {new_item},
                                 !.n_leo_items = @ + 1],
             item |-> TRUE]

\* The determinism test of leo_try_completion: fall back unless exactly one
\* situation waits.
LeoNotDeterministicMutant(n_waiting) == n_waiting < 1

LeoNotDeterministic(n_waiting) == n_waiting # 1

\* leo_try_completion: the new context and the value returned.
leo_try_completion(ctx, completed_sit, current_set_num, waiting_vect, alloc_ok) ==
  IF ~ctx.initialized \/ ~ctx.enabled
    THEN [ctx |-> ctx, ret |-> 0]
  ELSE IF waiting_vect.null \/ completed_sit.null
    THEN [ctx |-> ctx, ret |-> 0]
  ELSE IF LeoNotDeterministic(Len(waiting_vect.els))
    THEN [ctx |-> ctx, ret |-> 0]
  ELSE
    LET counted == [ctx EXCEPT !.n_leo_completions = @ + 1]
        completed_symbol == completed_sit.lhs
        existing == leo_lookup(counted, current_set_num, completed_symbol)
    IN IF existing # {}
         THEN [ctx |-> counted, ret |-> 1]
         ELSE LET waiting_sit == CoreSitAt(waiting_vect.els[1])
                  ins == leo_insert(counted, current_set_num, completed_symbol,
                                    waiting_sit, alloc_ok)
              IN IF ~ins.item
                   THEN [ctx |-> ins.ctx, ret |-> 0]
                   ELSE [ctx |-> ins.ctx, ret |-> 1]

\* leo_get_stats.
leo_get_stats(ctx) ==
  IF ~ctx.initialized
    THEN [n_items |-> 0, n_completions |-> 0]
    ELSE [n_items |-> ctx.n_leo_items, n_completions |-> ctx.n_leo_completions]

NoLeoCall ==
  [made |-> FALSE, n_waiting |-> 0, null |-> TRUE, ret |-> 0,
   set_num |-> 0, symbol |-> "A", before |-> {},
   els |-> <<>>, set_before |-> {}, pending |-> FALSE,
   cleared |-> FALSE, flags |-> <<FALSE, FALSE>>, counts |-> <<0, 0>>]

\* Nothing has happened since the last leo_init/leo_clear.
LeoSeen0 == [deterministic |-> 0, created |-> 0, alloc_failed |-> FALSE]

\* What one leo_try_completion call adds to the record of the period: a call
\* that gets as far as the waiter count and finds exactly one waiter, the items
\* it created, and whether an allocation for an item failed.
LeoSeenAfter(seen, ctx, csit, wv, set_num, alloc_ok, fresh) ==
  LET looked == ctx.initialized /\ ctx.enabled /\ ~wv.null /\ ~csit.null
      one == looked /\ Len(wv.els) = 1
      known == \E it \in ctx.leo_item_table : it.origin = set_num /\ it.symbol = csit.lhs
  IN [deterministic |-> seen.deterministic + (IF one THEN 1 ELSE 0),
      created |-> seen.created + Cardinality(fresh),
      alloc_failed |-> seen.alloc_failed \/ (one /\ ~known /\ ~alloc_ok)]

LeoInit0 ==
  /\ leo = LeoCtx0
  /\ leoCall = NoLeoCall
  /\ leoMade = {}
  /\ leoCalls = 0
  /\ leoSet = {}
  /\ leoSeen = LeoSeen0

LeoDoInit ==
  /\ leoCalls < MaxLeoCalls
  /\ ~leo.initialized
  /\ leo' = leo_init(leo)
  /\ leoMade' = {}
  /\ leoCall' = NoLeoCall
  /\ leoSet' = {}
  /\ leoSeen' = LeoSeen0
  /\ leoCalls' = leoCalls + 1
  /\ UNCHANGED notLeoVars

LeoDoClear ==
  /\ leoCalls < MaxLeoCalls
  /\ leo' = leo_clear(leo)
  /\ leoMade' = IF leo.initialized THEN {} ELSE leoMade
  /\ leoCall' = [NoLeoCall EXCEPT !.before = leo.leo_item_table,
                                  !.cleared = leo.initialized,
                                  !.flags = <<leo.enabled, leo.initialized>>]
  /\ leoSet' = {}
  /\ leoSeen' = LeoSeen0
  /\ leoCalls' = leoCalls + 1
  /\ UNCHANGED notLeoVars

LeoDoFinish ==
  /\ leoCalls < MaxLeoCalls
  /\ leo' = leo_finish(leo)
  /\ leoMade' = IF leo.initialized THEN {} ELSE leoMade
  /\ leoCall' = NoLeoCall
  /\ UNCHANGED <<leoSet, leoSeen>>
  /\ leoCalls' = leoCalls + 1
  /\ UNCHANGED notLeoVars

\* The grammar's Leo switch (the "Leo enable" configuration flag).
LeoSetEnabled(flag) ==
  /\ leoCalls < MaxLeoCalls
  /\ leo.initialized
  /\ leo.enabled # flag
  /\ leo' = [leo EXCEPT !.enabled = flag]
  /\ UNCHANGED <<leoMade, leoSet, leoSeen>>
  /\ leoCall' = NoLeoCall
  /\ leoCalls' = leoCalls + 1
  /\ UNCHANGED notLeoVars

LeoDoTryCompletion(csit, set_num, wv, alloc_ok) ==
  /\ leoCalls < MaxLeoCalls
  /\ LET r == leo_try_completion(leo, csit, set_num, wv, alloc_ok)
         fresh == r.ctx.leo_item_table \ leo.leo_item_table
     IN /\ leo' = r.ctx
        /\ leoCall' = [made |-> TRUE, n_waiting |-> Len(wv.els),
                       null |-> wv.null \/ csit.null,
                       ret |-> r.ret, set_num |-> set_num, symbol |-> csit.lhs,
                       before |-> leo.leo_item_table,
                       els |-> wv.els, set_before |-> leoSet, pending |-> TRUE,
                       cleared |-> FALSE, flags |-> <<leo.enabled, leo.initialized>>,
                       counts |-> <<leo.n_leo_items, leo.n_leo_completions>>]
        /\ leoSeen' = LeoSeenAfter(leoSeen, leo, csit, wv, set_num, alloc_ok, fresh)
        /\ leoMade' = {m \in leoMade :
                         \E it \in r.ctx.leo_item_table :
                           it.origin = m.origin /\ it.symbol = m.symbol /\ it.sit = m.sit}
                      \cup {[origin |-> it.origin, symbol |-> it.symbol, sit |-> it.sit,
                             n_waiting |-> Len(wv.els)] : it \in fresh}
  /\ leoCalls' = leoCalls + 1
  /\ UNCHANGED leoSet
  /\ UNCHANGED notLeoVars

\* The completion loop of the parser core after the call: when the call
\* reported 0 the standard completion adds the advanced variant of every
\* waiting situation to the current set; when it reported 1 the loop skips the
\* completion.
LeoStandardCompletion ==
  /\ leoCall.made /\ leoCall.pending
  /\ leoCall' = [leoCall EXCEPT !.pending = FALSE]
  /\ leoSet' = IF leoCall.ret = 0
                 THEN leoSet \cup {LeoAdvance(CoreSitAt(leoCall.els[k])) :
                                     k \in DOMAIN leoCall.els}
                 ELSE leoSet
  /\ UNCHANGED <<leo, leoMade, leoCalls, leoSeen>>
  /\ UNCHANGED notLeoVars

LeoNext ==
  \/ LeoDoInit
  \/ LeoDoClear
  \/ LeoDoFinish
  \/ \E flag \in BOOLEAN : LeoSetEnabled(flag)
  \/ \E csit \in CompletedSits, set_num \in 0..MaxSetNum,
        wv \in WaitingVects, alloc_ok \in BOOLEAN :
       LeoDoTryCompletion(csit, set_num, wv, alloc_ok)
  \/ LeoStandardCompletion

(***************************************************************************)
(* THREAD-LOCAL ERROR CONTEXT  (src/src/yaep_error.c)                      *)
(***************************************************************************)

\* Bounds of the error-context model.
MaxErrCalls == 2     \* set/clear calls each thread starts in one run

YAEP_MAX_ERROR_MESSAGE_LENGTH == 1024

Threads == {1, 2}

\* Each thread works on a grammar of its own.
GrammarOf(t) == IF t = 1 THEN "g1" ELSE "g2"

ErrGrammars == {GrammarOf(t) : t \in Threads}

\* A formatted message is identified by its text and its length in bytes; the
\* text of a shorter length is a prefix of the text of a longer one.
NoMessage == [text |-> "", len |-> 0]

\* What a caller can ask yaep_set_error to record: a code with the message the
\* format and its arguments expand to.
ErrRequests ==
  {[code |-> "NoMemory", msg |-> [text |-> "allocation failed", len |-> 17]],
   [code |-> "ParseSyntax", msg |-> [text |-> "long", len |-> 2000]]}

\* vsnprintf(ctx->error_message, sizeof(ctx->error_message), ...) followed by
\* the store of the terminating NUL: at most YAEP_MAX_ERROR_MESSAGE_LENGTH
\* bytes of the expansion are kept.
FormatMessage(msg) ==
  [text |-> msg.text, len |-> Min(msg.len, YAEP_MAX_ERROR_MESSAGE_LENGTH)]

\* yaep_thread_error_ctx = {0}.
ErrCtx0 == [error_code |-> "0", error_message |-> NoMessage, grammar_ctx |-> "NULL"]

\* yaep_get_error_context: the storage slot the calling thread's context lives
\* in.  The context is declared thread-local: one slot per thread.
yaep_get_error_context_shared(t) == 1

yaep_get_error_context(t) == t

\* What a thread reads back from its error context.
ErrRead(t) == errCtx[yaep_get_error_context(t)]

\* The hook registered with yaep_set_error_update_hook copies the thread's
\* error into the grammar handle.
ErrHookCopy(ctx) == [error_code |-> ctx.error_code, error_message |-> ctx.error_message]

\* yaep_update_grammar_if_needed.
yaep_update_grammar_if_needed(buf, g, ctx) ==
  IF g # "NULL" /\ errHook
    THEN [buf EXCEPT ![g] = ErrHookCopy(ctx)]
    ELSE buf

ErrInit0 ==
  /\ errCtx = [s \in Threads |-> ErrCtx0]
  /\ errPc = [t \in Threads |-> "idle"]
  /\ errArg = [t \in Threads |-> [g |-> "NULL", code |-> "0", msg |-> NoMessage]]
  /\ errOwn = [t \in Threads |-> ErrCtx0]
  /\ errHook = FALSE
  /\ gramErr = [g \in ErrGrammars |-> [error_code |-> "0", error_message |-> NoMessage]]
  /\ errCalls = [t \in Threads |-> 0]

ErrIdle == ErrInit0

\* yaep_set_error_update_hook: the hook pointer is a plain global, installed
\* or removed while no thread has reported an error yet.
ErrSetHook(h) ==
  /\ errHook # h
  /\ \A t \in Threads : errCalls[t] = 0
  /\ errHook' = h
  /\ UNCHANGED <<errCtx, errPc, errArg, errOwn, gramErr, errCalls>>
  /\ UNCHANGED notErrVars

\* A thread enters yaep_set_error / yaep_vset_error with a grammar (its own,
\* or none), a code and a message.
ErrSetCall(t, g, req) ==
  /\ errPc[t] = "idle"
  /\ errCalls[t] < MaxErrCalls
  /\ errArg' = [errArg EXCEPT ![t] = [g |-> g, code |-> req.code, msg |-> req.msg]]
  /\ errOwn' = [errOwn EXCEPT ![t] =
                  [error_code |-> req.code,
                   error_message |-> FormatMessage(req.msg),
                   grammar_ctx |-> g]]
  /\ errPc' = [errPc EXCEPT ![t] = "set_code"]
  /\ errCalls' = [errCalls EXCEPT ![t] = @ + 1]
  /\ UNCHANGED <<errCtx, errHook, gramErr>>
  /\ UNCHANGED notErrVars

\* ctx->error_code = code;
ErrSetCode(t) ==
  /\ errPc[t] = "set_code"
  /\ errCtx' = [errCtx EXCEPT ![yaep_get_error_context(t)].error_code = errArg[t].code]
  /\ errPc' = [errPc EXCEPT ![t] = "set_grammar"]
  /\ UNCHANGED <<errArg, errOwn, errHook, gramErr, errCalls>>
  /\ UNCHANGED notErrVars

\* ctx->grammar_ctx = g;
ErrSetGrammar(t) ==
  /\ errPc[t] = "set_grammar"
  /\ errCtx' = [errCtx EXCEPT ![yaep_get_error_context(t)].grammar_ctx = errArg[t].g]
  /\ errPc' = [errPc EXCEPT ![t] = "set_message"]
  /\ UNCHANGED <<errArg, errOwn, errHook, gramErr, errCalls>>
  /\ UNCHANGED notErrVars

\* vsnprintf(...); ctx->error_message[sizeof - 1] = '\0';
ErrSetMessage(t) ==
  /\ errPc[t] = "set_message"
  /\ errCtx' = [errCtx EXCEPT ![yaep_get_error_context(t)].error_message =
                                FormatMessage(errArg[t].msg)]
  /\ errPc' = [errPc EXCEPT ![t] = "set_hook"]
  /\ UNCHANGED <<errArg, errOwn, errHook, gramErr, errCalls>>
  /\ UNCHANGED notErrVars

\* yaep_update_grammar_if_needed(g, ctx); return code;
ErrSetReturn(t) ==
  /\ errPc[t] = "set_hook"
  /\ gramErr' = yaep_update_grammar_if_needed(gramErr, errArg[t].g,
                                              errCtx[yaep_get_error_context(t)])
  /\ errPc' = [errPc EXCEPT ![t] = "idle"]
  /\ UNCHANGED <<errCtx, errArg, errOwn, errHook, errCalls>>
  /\ UNCHANGED notErrVars

\* A thread enters yaep_clear_error.
ErrClearCall(t) ==
  /\ errPc[t] = "idle"
  /\ errCalls[t] < MaxErrCalls
  /\ errOwn' = [errOwn EXCEPT ![t] = ErrCtx0]
  /\ errPc' = [errPc EXCEPT ![t] = "clear_code"]
  /\ errCalls' = [errCalls EXCEPT ![t] = @ + 1]
  /\ UNCHANGED <<errCtx, errArg, errHook, gramErr>>
  /\ UNCHANGED notErrVars

\* ctx->error_code = 0;
ErrClearCode(t) ==
  /\ errPc[t] = "clear_code"
  /\ errCtx' = [errCtx EXCEPT ![yaep_get_error_context(t)].error_code = "0"]
  /\ errPc' = [errPc EXCEPT ![t] = "clear_message"]
  /\ UNCHANGED <<errArg, errOwn, errHook, gramErr, errCalls>>
  /\ UNCHANGED notErrVars

\* ctx->error_message[0] = '\0';
ErrClearMessage(t) ==
  /\ errPc[t] = "clear_message"
  /\ errCtx' = [errCtx EXCEPT ![yaep_get_error_context(t)].error_message = NoMessage]
  /\ errPc' = [errPc EXCEPT ![t] = "clear_grammar"]
  /\ UNCHANGED <<errArg, errOwn, errHook, gramErr, errCalls>>
  /\ UNCHANGED notErrVars

\* ctx->grammar_ctx = NULL; return;
ErrClearGrammar(t) ==
  /\ errPc[t] = "clear_grammar"
  /\ errCtx' = [errCtx EXCEPT ![yaep_get_error_context(t)].grammar_ctx = "NULL"]
  /\ errPc' = [errPc EXCEPT ![t] = "idle"]
  /\ UNCHANGED <<errArg, errOwn, errHook, gramErr, errCalls>>
  /\ UNCHANGED notErrVars

ErrNext ==
  \/ \E h \in BOOLEAN : ErrSetHook(h)
  \/ \E t \in Threads : \E g \in {"NULL", GrammarOf(t)}, req \in ErrRequests :
       ErrSetCall(t, g, req)
  \/ \E t \in Threads : ErrSetCode(t)
  \/ \E t \in Threads : ErrSetGrammar(t)
  \/ \E t \in Threads : ErrSetMessage(t)
  \/ \E t \in Threads : ErrSetReturn(t)
  \/ \E t \in Threads : ErrClearCall(t)
  \/ \E t \in Threads : ErrClearCode(t)
  \/ \E t \in Threads : ErrClearMessage(t)
  \/ \E t \in Threads : ErrClearGrammar(t)

(***************************************************************************)
(* UNICODE SUPPORT  (src/src/unicode/yaep_unicode.c)                       *)
(*                                                                         *)
(* A C string is the sequence of its bytes before the terminating NUL;     *)
(* positions are 1-based and the byte just after the last one is the NUL.  *)
(***************************************************************************)

YAEP_CODEPOINT_INVALID == -1

YAEP_CODEPOINT_EOS == 0

ByteAt(s, i) == IF i >= 1 /\ i <= Len(s) THEN s[i] ELSE 0

\* (b & 0xC0) == 0x80
utf_cont(b) == b >= 128 /\ b < 192

\* utf8proc's UTF8PROC_ERROR_INVALIDUTF8 is -3.
IterError == [step |-> -3, cp |-> -1]

\* utf8proc_iterate(s + i, -1, &cp): the number of bytes of the sequence at i
\* and its code point, or a negative step.  A lead byte outside 0xC2..0xF4, a
\* missing continuation byte, an overlong form, a surrogate and a value above
\* U+10FFFF are errors.
utf8proc_iterate(s, i) ==
  LET uc == ByteAt(s, i)
      b1 == ByteAt(s, i + 1)
      b2 == ByteAt(s, i + 2)
      b3 == ByteAt(s, i + 3)
  IN  IF uc < 128 THEN [step |-> 1, cp |-> uc]
      ELSE IF uc < 194 \/ uc > 244 THEN IterError
      ELSE IF uc < 224 THEN
        IF ~utf_cont(b1) THEN IterError
        ELSE [step |-> 2, cp |-> (uc % 32) * 64 + (b1 % 64)]
      ELSE IF uc < 240 THEN
        IF ~utf_cont(b1) \/ ~utf_cont(b2) THEN IterError
        ELSE IF uc = 237 /\ b1 > 159 THEN IterError
        ELSE LET v == (uc % 16) * 4096 + (b1 % 64) * 64 + (b2 % 64)
             IN  IF v < 2048 THEN IterError ELSE [step |-> 3, cp |-> v]
      ELSE
        IF ~utf_cont(b1) \/ ~utf_cont(b2) \/ ~utf_cont(b3) THEN IterError
        ELSE IF uc = 240 /\ b1 < 144 THEN IterError
        ELSE IF uc = 244 /\ b1 > 143 THEN IterError
        ELSE [step |-> 4,
              cp |-> (uc % 8) * 262144 + (b1 % 64) * 4096 + (b2 % 64) * 64 + (b3 % 64)]

\* An iterator that stays on a byte it cannot decode.
yaep_utf8_next_stays(s, i) ==
  IF ByteAt(s, i) = 0 THEN [cp |-> YAEP_CODEPOINT_EOS, next |-> i]
  ELSE IF ByteAt(s, i) < 128 THEN [cp |-> ByteAt(s, i), next |-> i + 1]
  ELSE LET r == utf8proc_iterate(s, i)
       IN  IF r.step < 0
             THEN [cp |-> YAEP_CODEPOINT_INVALID, next |-> i]
             ELSE [cp |-> r.cp, next |-> i + r.step]

\* yaep_utf8_next(&p) with p at position i: the code point and the new position.
yaep_utf8_next(s, i) ==
  IF ByteAt(s, i) = 0 THEN [cp |-> YAEP_CODEPOINT_EOS, next |-> i]
  ELSE IF ByteAt(s, i) < 128 THEN [cp |-> ByteAt(s, i), next |-> i + 1]
  ELSE LET r == utf8proc_iterate(s, i)
       IN  IF r.step < 0
             THEN [cp |-> YAEP_CODEPOINT_INVALID, next |-> i + 1]
             ELSE [cp |-> r.cp, next |-> i + r.step]

\* The loop of yaep_utf8_validate, p at position i with offset = i - 1.
RECURSIVE ValidateLoop(_, _, _)
ValidateLoop(s, i, count) ==
  IF ByteAt(s, i) = 0
    THEN [ret |-> 1, len |-> count, error_offset |-> i - 1, error_code |-> 0]
    ELSE LET r == utf8proc_iterate(s, i)
         IN  IF r.step < 0
               THEN [ret |-> 0, len |-> count, error_offset |-> i - 1,
                     error_code |-> r.step]
               ELSE ValidateLoop(s, i + r.step, count + 1)

\* A validator that stops at the last byte of the text instead of the NUL, and
\* so never looks at a sequence cut short by the end of the text.
yaep_utf8_validate_no_tail(s) ==
  IF Len(s) = 0 THEN ValidateLoop(s, 1, 0)
  ELSE LET r == ValidateLoop(SubSeq(s, 1, Len(s) - 1), 1, 0)
       IN  IF r.ret = 0 THEN r ELSE [r EXCEPT !.len = @ + 1, !.error_offset = Len(s)]

\* yaep_utf8_validate(str, &len, &error_offset, &error_code), str not NULL.
yaep_utf8_validate(s) == ValidateLoop(s, 1, 0)

\* utf8proc_get_property(cp)->category for the code points of the model's
\* repertoire, as the Unicode Character Database gives it.
UnicodeCategory(cp) ==
  CASE cp = 197 -> "Lu"      \* U+00C5 LATIN CAPITAL LETTER A WITH RING ABOVE
    [] cp = 202 -> "Lu"      \* U+00CA LATIN CAPITAL LETTER E WITH CIRCUMFLEX
    [] cp = 778 -> "Mn"      \* U+030A COMBINING RING ABOVE
    [] cp = 773 -> "Mn"      \* U+0305 COMBINING OVERLINE
    [] cp = 133 -> "Cc"      \* U+0085 NEXT LINE
    [] cp = 138 -> "Cc"      \* U+008A
    [] OTHER -> "Cn"

yaep_utf8_isalpha(cp) ==
  IF cp >= 0 /\ cp < 128 THEN (cp >= 65 /\ cp <= 90) \/ (cp >= 97 /\ cp <= 122)
  ELSE IF cp < 0 THEN FALSE
  ELSE UnicodeCategory(cp) \in {"Lu", "Ll", "Lt", "Lm", "Lo"}

yaep_utf8_isalnum(cp) ==
  IF cp >= 0 /\ cp < 128
    THEN (cp >= 65 /\ cp <= 90) \/ (cp >= 97 /\ cp <= 122) \/ (cp >= 48 /\ cp <= 57)
  ELSE IF cp < 0 THEN FALSE
  ELSE UnicodeCategory(cp) \in {"Lu", "Ll", "Lt", "Lm", "Lo", "Nd", "Mn", "Mc", "Pc"}

yaep_utf8_isspace(cp) ==
  IF cp >= 0 /\ cp < 128 THEN cp \in {32, 9, 10, 11, 12, 13}
  ELSE IF cp < 0 THEN FALSE
  ELSE UnicodeCategory(cp) \in {"Zs", "Zl", "Zp"}

\* The code points of a well-formed string.
RECURSIVE DecodeFrom(_, _)
DecodeFrom(s, i) ==
  IF ByteAt(s, i) = 0 THEN <<>>
  ELSE LET r == utf8proc_iterate(s, i)
       IN  <<r.cp>> \o DecodeFrom(s, i + r.step)

\* utf8proc_encode_char.
EncodeChar(cp) ==
  IF cp < 128 THEN <<cp>>
  ELSE IF cp < 2048 THEN <<192 + (cp \div 64), 128 + (cp % 64)>>
  ELSE IF cp < 65536
    THEN <<224 + (cp \div 4096), 128 + ((cp \div 64) % 64), 128 + (cp % 64)>>
  ELSE <<240 + (cp \div 262144), 128 + ((cp \div 4096) % 64),
         128 + ((cp \div 64) % 64), 128 + (cp % 64)>>

RECURSIVE EncodeAll(_)
EncodeAll(cps) ==
  IF cps = <<>> THEN <<>> ELSE EncodeChar(Head(cps)) \o EncodeAll(Tail(cps))

\* Canonical decomposition mapping of the Unicode Character Database.
CanonicalDecomposition(cp) ==
  CASE cp = 197 -> <<65, 778>>      \* U+00C5 = U+0041 U+030A
    [] cp = 202 -> <<69, 770>>      \* U+00CA = U+0045 U+0302
    [] OTHER -> <<cp>>

RECURSIVE DecomposeAll(_)
DecomposeAll(cps) ==
  IF cps = <<>> THEN <<>>
  ELSE CanonicalDecomposition(Head(cps)) \o DecomposeAll(Tail(cps))

\* Canonical_Combining_Class: 230 for the marks above, 0 for starters.
CombiningClass(cp) == IF cp \in {778, 773, 770} THEN 230 ELSE 0

\* Primary composite of a starter and a mark, 0 when there is none.
PrimaryComposite(starter, mark) ==
  CASE starter = 65 /\ mark = 778 -> 197
    [] starter = 69 /\ mark = 770 -> 202
    [] OTHER -> 0

\* Canonical composition of a decomposed sequence: out is the composed prefix,
\* st the index in out of the last starter (0 for none), lastcc the combining
\* class of the last mark kept after that starter.
RECURSIVE ComposeFrom(_, _, _, _)
ComposeFrom(out, st, lastcc, rest) ==
  IF rest = <<>> THEN out
  ELSE LET c == Head(rest)
           cc == CombiningClass(c)
           pc == IF st = 0 THEN 0 ELSE PrimaryComposite(out[st], c)
           blocked == IF cc = 0 THEN st # Len(out) ELSE lastcc >= cc
       IN  IF st # 0 /\ pc # 0 /\ ~blocked
             THEN ComposeFrom([out EXCEPT ![st] = pc], st, lastcc, Tail(rest))
           ELSE IF cc = 0
             THEN ComposeFrom(Append(out, c), Len(out) + 1, 0, Tail(rest))
           ELSE ComposeFrom(Append(out, c), st, cc, Tail(rest))

\* utf8proc_NFC(in): NULL for an ill-formed string, else the NFC form.
utf8proc_NFC(s) ==
  IF yaep_utf8_validate(s).ret = 0 THEN [null |-> TRUE, bytes |-> <<>>]
  ELSE [null |-> FALSE,
        bytes |-> EncodeAll(ComposeFrom(<<>>, 0, 0, DecomposeAll(DecodeFrom(s, 1))))]

\* A normalizer that hands the name back as it stands.
yaep_utf8_normalize_nfc_identity(s, alloc_ok) ==
  [ret |-> 1, out |-> s]

\* yaep_utf8_normalize_nfc(in, &out, alloc), in not NULL: 0 and no output when
\* utf8proc_NFC or the allocator fails.
yaep_utf8_normalize_nfc(s, alloc_ok) ==
  LET tmp == utf8proc_NFC(s)
  IN  IF tmp.null THEN [ret |-> 0, out |-> <<>>]
      ELSE IF ~alloc_ok THEN [ret |-> 0, out |-> <<>>]
      ELSE [ret |-> 1, out |-> tmp.bytes]

(***************************************************************************)
(* GRAMMAR FRONT-END: parse_grammar on a textual description               *)
(*                                                                         *)
(* The description is the list of terminal names of its TERM block; the    *)
(* rule part is the fixed rule "S : ;".                                    *)
(***************************************************************************)

\* Bounds of the front-end model.
MaxDescLen == 4      \* chunks of description text given to one handle in a run
MaxGramCalls == 2    \* parse_grammar calls on one handle in a run

\* The pieces descriptions are put together from: "A", " ", U+00C5 in UTF-8,
\* U+030A in UTF-8, and a lead byte 0xC3 without its continuation byte.
DescChunks == {<<65>>, <<32>>, <<195, 133>>, <<204, 138>>, <<195>>}

RECURSIVE Concat(_)
Concat(chunks) ==
  IF chunks = <<>> THEN <<>> ELSE Head(chunks) \o Concat(Tail(chunks))

\* The descriptions made of exactly n chunks.
Descriptions(n) == {Concat(c) : c \in [1..n -> DescChunks]}

\* End of the identifier whose first character ends just before position i.
RECURSIVE IdentEnd(_, _)
IdentEnd(s, i) ==
  LET r == yaep_utf8_next(s, i)
  IN  IF r.cp # YAEP_CODEPOINT_EOS /\ yaep_utf8_isalnum(r.cp)
        THEN IdentEnd(s, r.next)
        ELSE i

\* The lexer on the terminal block: white space is skipped, an identifier
\* starts with an identifier-start character and goes on with
\* identifier-continue characters; anything else is a token no declaration
\* can start with, and lexing stops there.
RECURSIVE LexFrom(_, _)
LexFrom(s, i) ==
  LET r == yaep_utf8_next(s, i)
  IN  IF r.cp = YAEP_CODEPOINT_EOS THEN <<>>
      ELSE IF yaep_utf8_isspace(r.cp) THEN LexFrom(s, r.next)
      ELSE IF yaep_utf8_isalpha(r.cp)
        THEN LET e == IdentEnd(s, r.next)
             IN  <<[kind |-> "ident", text |-> SubSeq(s, i, e - 1)]>> \o LexFrom(s, e)
      ELSE <<[kind |-> "bad", text |-> SubSeq(s, i, r.next - 1)]>>

NoError == [code |-> "0", msg |-> <<>>]

GramEmpty == [terms |-> {}, nonterms |-> {}, rules |-> {}]

\* The rule part of every description: S : ;
TheRule == [lhs |-> "S", rhs |-> <<>>]

\* The error a failed validation leaves in the handle: the message names the
\* byte offset.
InvalidUtf8Error(v) ==
  [code |-> "InvalidUtf8", msg |-> <<"invalid UTF-8", "at byte offset", v.error_offset>>]

GramInit0 ==
  /\ gram = GramEmpty
  /\ gErr = NoError
  /\ gPc = "idle"
  /\ gToks = <<>>
  /\ gDesc = <<>>
  /\ gBefore = GramEmpty
  /\ gRet = "none"
  /\ gCalls = 0
  /\ gUsed = 0

GramIdle == GramInit0

\* parse_grammar(g, strict, desc), up to the end of the pre-flight validation:
\* an ill-formed description makes the call return InvalidUtf8 at once.
GramParseCall(n, desc) ==
  /\ gPc = "idle"
  /\ gCalls < MaxGramCalls
  /\ gUsed + n <= MaxDescLen
  /\ gCalls' = gCalls + 1
  /\ gUsed' = gUsed + n
  /\ gDesc' = desc
  /\ gBefore' = gram
  /\ LET v == yaep_utf8_validate(desc)
     IN  IF v.ret = 0
           THEN /\ gErr' = InvalidUtf8Error(v)
                /\ gRet' = "InvalidUtf8"
                /\ gPc' = "idle"
                /\ gToks' = <<>>
           ELSE /\ gErr' = NoError
                /\ gRet' = "none"
                /\ gPc' = "terms"
                /\ gToks' = LexFrom(desc, 1)
  /\ UNCHANGED gram
  /\ UNCHANGED notGramVars

\* One terminal declaration: the name is NFC-normalized and interned; a name
\* already in the table is a repeated declaration.
GramDeclareTerm ==
  /\ gPc = "terms"
  /\ gToks # <<>>
  /\ LET tok == Head(gToks)
         nm == yaep_utf8_normalize_nfc(tok.text, TRUE)
     IN  IF tok.kind = "bad" \/ nm.ret = 0
           THEN /\ gErr' = [code |-> "DescriptionSyntax", msg |-> <<"syntax error">>]
                /\ gRet' = "DescriptionSyntax"
                /\ gPc' = "idle"
                /\ gToks' = <<>>
                /\ UNCHANGED gram
         ELSE IF nm.out \in gram.terms
           THEN /\ gErr' = [code |-> "RepeatedTermDecl",
                            msg |-> <<"repeated declaration of terminal", nm.out>>]
                /\ gRet' = "RepeatedTermDecl"
                /\ gPc' = "idle"
                /\ gToks' = <<>>
                /\ UNCHANGED gram
         ELSE /\ gram' = [gram EXCEPT !.terms = @ \cup {nm.out}]
              /\ gToks' = Tail(gToks)
              /\ UNCHANGED <<gErr, gRet, gPc>>
  /\ UNCHANGED <<gDesc, gBefore, gCalls, gUsed>>
  /\ UNCHANGED notGramVars

\* The rule part, after the last terminal declaration; the call returns.
GramAddRules ==
  /\ gPc = "terms"
  /\ gToks = <<>>
  /\ IF TheRule \in gram.rules
       THEN /\ gErr' = [code |-> "RepeatedRule", msg |-> <<"repeated rule">>]
            /\ gRet' = "RepeatedRule"
            /\ UNCHANGED gram
       ELSE /\ gram' = [gram EXCEPT !.nonterms = @ \cup {TheRule.lhs},
                                    !.rules = @ \cup {TheRule}]
            /\ gRet' = "0"
            /\ UNCHANGED gErr
  /\ gPc' = "idle"
  /\ UNCHANGED <<gToks, gDesc, gBefore, gCalls, gUsed>>
  /\ UNCHANGED notGramVars

GramNext ==
  \/ \E n \in 0..MaxDescLen : \E desc \in Descriptions(n) : GramParseCall(n, desc)
  \/ GramDeclareTerm
  \/ GramAddRules

(***************************************************************************)
(* GRAMMARS OF THE PARSER MODEL                                            *)
(*                                                                         *)
(* Rule 1 of every grammar is the augmented start rule.  Terminals are the *)
(* symbols that are no rule's left-hand side; "$error" is the error        *)
(* terminal, "$eof" the end of input, "?" a token code no grammar declares.*)
(***************************************************************************)

Rule(lhs, rhs, cost) == [lhs |-> lhs, rhs |-> rhs, cost |-> cost]

Grammars ==
  << \* S : A ;  A : 'b' ;                         (test50.c)
     << Rule("$S", <<"S">>, 0), Rule("S", <<"A">>, 1), Rule("A", <<"b">>, 1) >>,
     \* S : S 'a' | 'b' ;
     << Rule("$S", <<"S">>, 0), Rule("S", <<"S", "a">>, 1), Rule("S", <<"b">>, 1) >>,
     \* S : 'a' S 'b' | ;
     << Rule("$S", <<"S">>, 0), Rule("S", <<"a", "S", "b">>, 1), Rule("S", <<>>, 1) >>,
     \* E : E E | 'n' ;                               (ambiguous)
     << Rule("$S", <<"E">>, 0), Rule("E", <<"E", "E">>, 1), Rule("E", <<"n">>, 1) >>,
     \* S : A 'a' | B 'b' ;  A : 'a' | ;  B : 'a' ;    (lookahead decides)
     << Rule("$S", <<"S">>, 0), Rule("S", <<"A", "a">>, 1), Rule("S", <<"B", "b">>, 1),
        Rule("A", <<"a">>, 1), Rule("A", <<>>, 1), Rule("B", <<"a">>, 1) >>,
     \* S : S T | T ;  T : 'x' | error ;              (error recovery in a list)
     << Rule("$S", <<"S">>, 0), Rule("S", <<"S", "T">>, 1), Rule("S", <<"T">>, 1),
        Rule("T", <<"x">>, 1), Rule("T", <<"$error">>, 1) >>,
     \* S : 'x' 'y' | error 'y' | error ;            (error recovery at the start)
     << Rule("$S", <<"S">>, 0), Rule("S", <<"x", "y">>, 1), Rule("S", <<"$error", "y">>, 1),
        Rule("S", <<"$error">>, 1) >> >>

GrammarIds == DOMAIN Grammars

RulesNonterms(R) == {R[r].lhs : r \in DOMAIN R}

RulesSymbols(R) == UNION {{R[r].rhs[k] : k \in DOMAIN R[r].rhs} : r \in DOMAIN R}

\* Worklist iteration to a fixed point: the nonterminals that derive the empty
\* string.
RECURSIVE NullableFix(_, _)
NullableFix(R, N) ==
  LET N2 == N \cup {R[r].lhs : r \in {q \in DOMAIN R :
                                        \A k \in DOMAIN R[q].rhs : R[q].rhs[k] \in N}}
  IN  IF N2 = N THEN N ELSE NullableFix(R, N2)

\* FIRST of a symbol string, given the nullable set N and FIRST of the
\* nonterminals F.
RECURSIVE FirstOfSeq(_, _, _)
FirstOfSeq(N, F, syms) ==
  IF syms = <<>> THEN {}
  ELSE LET x == Head(syms)
           fx == IF x \in DOMAIN F THEN F[x] ELSE {x}
       IN  IF x \in N THEN fx \cup FirstOfSeq(N, F, Tail(syms)) ELSE fx

RECURSIVE FirstFix(_, _, _)
FirstFix(R, N, F) ==
  LET F2 == [n \in DOMAIN F |->
               F[n] \cup UNION {FirstOfSeq(N, F, R[r].rhs) :
                                  r \in {q \in DOMAIN R : R[q].lhs = n}}]
  IN  IF F2 = F THEN F ELSE FirstFix(R, N, F2)

\* What rule r contributes to FOLLOW through the symbol at position k.
FollowAt(R, N, F, W, r, k) ==
  LET tail == SubSeq(R[r].rhs, k + 1, Len(R[r].rhs))
  IN  FirstOfSeq(N, F, tail)
        \cup (IF \A j \in DOMAIN tail : tail[j] \in N THEN W[R[r].lhs] ELSE {})

RECURSIVE FollowFix(_, _, _, _)
FollowFix(R, N, F, W) ==
  LET W2 == [n \in DOMAIN W |->
               W[n] \cup UNION {UNION {FollowAt(R, N, F, W, r, k) :
                                         k \in {j \in DOMAIN R[r].rhs : R[r].rhs[j] = n}} :
                                  r \in DOMAIN R}]
  IN  IF W2 = W THEN W ELSE FollowFix(R, N, F, W2)

\* Finalize: the grammar handle with its rules and the nullable, FIRST and
\* FOLLOW sets computed from them; FOLLOW of the augmented start is the end of
\* input.
Finalize(id) ==
  LET R == Grammars[id]
      NT == RulesNonterms(R)
      N == NullableFix(R, {})
      F == FirstFix(R, N, [n \in NT |-> {}])
      W == FollowFix(R, N, F, [n \in NT |-> IF n = "$S" THEN {"$eof"} ELSE {}])
  IN  [id |-> id, rules |-> R, nonterms |-> NT, terms |-> RulesSymbols(R) \ NT,
       nullable |-> N, first |-> F, follow |-> W]

\* In what follows g is a finalized grammar handle.
RuleIds(g) == DOMAIN g.rules

Nonterms(g) == g.nonterms

\* The token codes a reader can deliver for grammar g: its declared terminals
\* and one undeclared code.
TokenCodes(g) == (g.terms \ {"$error"}) \cup {"?"}

Rhs(g, r) == g.rules[r].rhs

Lhs(g, r) == g.rules[r].lhs

\* The symbols of rule r after position d.
RhsTail(g, r, d) == SubSeq(Rhs(g, r), d + 1, Len(Rhs(g, r)))

SeqNullable(g, syms) == \A k \in DOMAIN syms : syms[k] \in g.nullable

First(g, syms) == FirstOfSeq(g.nullable, g.first, syms)

(***************************************************************************)
(* PARSER-LIST BUILDER                                                     *)
(*                                                                         *)
(* A situation is [r, d, o, c]: rule, dot, origin (index of the set where  *)
(* the rule was predicted) and lookahead context.  Set k of the parser     *)
(* list is pList[k + 1]; a set records the number of tokens before it and  *)
(* the symbol whose scan produced it.                                      *)
(***************************************************************************)

Sit(r, d, o, c) == [r |-> r, d |-> d, o |-> o, c |-> c]

Complete(g, it) == it.d = Len(Rhs(g, it.r))

\* The symbol after the dot, "" when the dot is at the end.
AfterDot(g, it) == IF Complete(g, it) THEN "" ELSE Rhs(g, it.r)[it.d + 1]

Advance(it) == [it EXCEPT !.d = @ + 1]

\* The token at position t (0-based), "$eof" after the last one.
TokenAt(w, t) == IF t < Len(w) THEN w[t + 1] ELSE "$eof"

\* ctx0: empty at lookahead level 0, FOLLOW of the augmented start above.
StartCtx(lvl) == IF lvl = 0 THEN {} ELSE {"$eof"}

\* The context of a situation predicted for a rule of n from the situation
\* parent: none at level 0; at level 1 the static context of n; at level 2
\* FIRST of what follows n in the parent plus, if that is nullable, the
\* parent's own context.
PredictCtx(g, lvl, parent, n) ==
  IF lvl = 0 THEN {}
  ELSE IF lvl = 1 THEN g.follow[n]
  ELSE LET beta == RhsTail(g, parent.r, parent.d + 1)
       IN  First(g, beta) \cup (IF SeqNullable(g, beta) THEN parent.c ELSE {})

\* The lookahead of a situation: FIRST of the tail plus, if the tail is
\* nullable, the inherited context.
Lookahead(g, it) ==
  LET tail == RhsTail(g, it.r, it.d)
  IN  First(g, tail) \cup (IF SeqNullable(g, tail) THEN it.c ELSE {})

\* A filter that looks at FIRST of the tail only and forgets the inherited
\* context of a nullable tail.
LookaheadKeepsFirstOnly(g, lvl, next, it) ==
  \/ lvl = 0
  \/ next \in First(g, RhsTail(g, it.r, it.d))
  \/ "$error" \in First(g, RhsTail(g, it.r, it.d))

\* The lookahead filter: at level >= 1 a new situation is kept only if its
\* lookahead admits the next terminal; a situation that admits the error
\* terminal is kept for the recovery subsystem.
LookaheadKeeps(g, lvl, next, it) ==
  \/ lvl = 0
  \/ next \in Lookahead(g, it)
  \/ "$error" \in Lookahead(g, it)

\* The situations of set o while set i is under construction with situations cur.
SitsOfSet(list, i, cur, o) == IF o = i THEN cur ELSE list[o + 1].sits

\* Predict: for a dot before nonterminal n, every rule of n at dot 0, and the
\* advanced situation when n derives the empty string.
Predicted(g, lvl, i, cur) ==
  UNION {LET n == AfterDot(g, it)
         IN  IF n \in Nonterms(g)
               THEN {Sit(r, 0, i, PredictCtx(g, lvl, it, n)) :
                       r \in {q \in RuleIds(g) : Lhs(g, q) = n}}
                    \cup (IF n \in g.nullable THEN {Advance(it)} ELSE {})
               ELSE {} : it \in cur}

\* The situations of the origin set that wait for the left-hand side of a
\* completed situation.
Waiting(g, list, i, cur, it) ==
  {w \in SitsOfSet(list, i, cur, it.o) : AfterDot(g, w) = Lhs(g, it.r)}

\* Complete: the advanced variants of the waiting situations.  The Leo table
\* is consulted beside this step and adds no situation to the set
\* (leo_try_completion changes the Leo context only), so completion is the
\* standard one whether Leo is enabled or not.
Completed(g, list, i, cur) ==
  UNION {IF Complete(g, it)
           THEN {Advance(w) : w \in Waiting(g, list, i, cur, it)}
           ELSE {} : it \in cur}

\* Closure = predict + complete, to a fixed point, with the lookahead filter on
\* what is added.
RECURSIVE Closure(_, _, _, _, _, _)
Closure(g, lvl, list, i, cur, next) ==
  LET new == {it \in Predicted(g, lvl, i, cur) \cup Completed(g, list, i, cur) :
                LookaheadKeeps(g, lvl, next, it)}
  IN  IF new \subseteq cur THEN cur
      ELSE Closure(g, lvl, list, i, cur \cup new, next)

\* Bootstrap: set 0.
BootstrapSet(g, lvl, next) ==
  [sits |-> Closure(g, lvl, <<>>, 0,
                    {Sit(r, 0, 0, StartCtx(lvl)) : r \in {q \in RuleIds(g) : Lhs(g, q) = "$S"}},
                    next),
   pos |-> 0,
   via |-> [sym |-> "", from |-> 0, to |-> 0]]

\* Scan: the advanced variants of the situations with the dot before sym.
Scan(g, set, sym) == {Advance(it) : it \in {x \in set.sits : AfterDot(g, x) = sym}}

\* The set that follows the last set of list when sym, covering the tokens
\* from..to-1, is scanned and next is the terminal after it.
NextSet(g, lvl, list, sym, from, to, next) ==
  [sits |-> Closure(g, lvl, list, Len(list), Scan(g, list[Len(list)], sym), next),
   pos |-> to,
   via |-> [sym |-> sym, from |-> from, to |-> to]]

\* Acceptance: a completed augmented-start situation with origin 0.
Accepts(g, set) == \E it \in set.sits : it.r = 1 /\ Complete(g, it) /\ it.o = 0

(***************************************************************************)
(* ERROR RECOVERY                                                          *)
(***************************************************************************)

RecoveryMatch == 2   \* K: tokens a resumed parse is tried on

ErrorAdmitting(g, set) == \E it \in set.sits : AfterDot(g, it) = "$error"

\* Index of the most recent set with an error-admitting situation, -1 for none.
RECURSIVE ErrorSetIndex(_, _, _)
ErrorSetIndex(g, list, k) ==
  IF k < 0 THEN -1
  ELSE IF ErrorAdmitting(g, list[k + 1]) THEN k
  ELSE ErrorSetIndex(g, list, k - 1)

\* The parser list cut back to set j and continued by the set reached over
\* "$error", which stands for the tokens from the position of set j up to r.
ErrorList(g, lvl, list, w, j, r) ==
  LET base == SubSeq(list, 1, j + 1)
  IN  Append(base, NextSet(g, lvl, base, "$error", list[j + 1].pos, r, TokenAt(w, r)))

\* The number of tokens, at most k, consumed from position t before a failure.
RECURSIVE Extent(_, _, _, _, _, _)
Extent(g, lvl, list, w, t, k) ==
  IF k = 0 \/ t >= Len(w) THEN 0
  ELSE IF Scan(g, list[Len(list)], w[t + 1]) = {} THEN 0
  ELSE 1 + Extent(g, lvl,
                  Append(list, NextSet(g, lvl, list, w[t + 1], t, t + 1, TokenAt(w, t + 1))),
                  w, t + 1, k - 1)

\* The score of resuming at token r, -1 when the parse cannot resume there:
\* it must consume a token, or end the input in an accepting set.
Score(g, lvl, list, w, j, r) ==
  LET el == ErrorList(g, lvl, list, w, j, r)
      x == Extent(g, lvl, el, w, r, RecoveryMatch)
  IN  IF x > 0 THEN x
      ELSE IF r = Len(w) /\ Accepts(g, el[Len(el)]) THEN 0
      ELSE -1

NoRecovery == [ok |-> FALSE, list |-> <<>>, ignored |-> -1, recovered |-> -1]

\* The best of the candidates: the largest extent and, among those, the fewest
\* discarded tokens; -1 for none.
BestCandidate(scores) ==
  LET cands == {r \in DOMAIN scores : scores[r] >= 0}
  IN  IF cands = {} THEN -1
      ELSE CHOOSE r \in cands :
             \A q \in cands : scores[q] < scores[r] \/ (scores[q] = scores[r] /\ r <= q)

\* The recovery for an error at token e.
Recovery(g, lvl, list, w, e) ==
  LET j == ErrorSetIndex(g, list, Len(list) - 1)
      best == IF j < 0 THEN -1
              ELSE BestCandidate([r \in e..Len(w) |-> Score(g, lvl, list, w, j, r)])
  IN  IF best < 0 THEN NoRecovery
      ELSE [ok |-> TRUE,
            list |-> ErrorList(g, lvl, list, w, j, best),
            ignored |-> list[j + 1].pos,
            recovered |-> best]

(***************************************************************************)
(* FOREST EXTRACTOR, one-parse mode                                        *)
(***************************************************************************)

NoTree == [kind |-> "NONE", sym |-> "", attr |-> -1, cost |-> 0, kids |-> <<>>]

TermNode(sym, attr) == [kind |-> "TERM", sym |-> sym, attr |-> attr, cost |-> 0, kids |-> <<>>]

ErrorNode(from, to) ==
  [kind |-> "ERROR", sym |-> "$error", attr |-> from, cost |-> 0, kids |-> <<>>]

\* An abstract node named after its rule; its cost is the rule's cost plus the
\* costs of its children.
RECURSIVE KidsCost(_)
KidsCost(kids) == IF kids = <<>> THEN 0 ELSE Head(kids).cost + KidsCost(Tail(kids))

ANode(g, r, kids) ==
  [kind |-> "ANODE", sym |-> Lhs(g, r), attr |-> r,
   cost |-> g.rules[r].cost + KidsCost(kids), kids |-> kids]

HasSit(set, r, d, o) == \E it \in set.sits : it.r = r /\ it.d = d /\ it.o = o

\* The leaf for the terminal whose scan produced a set.
LeafOf(set) ==
  IF set.via.sym = "$error" THEN ErrorNode(set.via.from, set.via.to)
  ELSE TermNode(set.via.sym, set.via.from)

\* The cheaper of two candidates, the first one on a tie.
Cheaper(a, b) ==
  IF a.kind = "NONE" THEN b
  ELSE IF b.kind = "NONE" THEN a
  ELSE IF b.cost < a.cost THEN b ELSE a

RECURSIVE BestTree(_, _, _, _, _)
RECURSIVE BestKids(_, _, _, _, _, _)
RECURSIVE BestOfRules(_, _, _, _, _, _)
RECURSIVE BestOfSplits(_, _, _, _, _, _, _)

\* The children for the first d symbols of rule r between sets o and i, as a
\* node whose kids they are; NoTree when there is no derivation.
BestKids(g, list, r, d, o, i) ==
  IF d = 0 THEN (IF i = o THEN ANode(g, r, <<>>) ELSE NoTree)
  ELSE LET sym == Rhs(g, r)[d]
       IN  IF sym \in Nonterms(g) THEN BestOfSplits(g, list, r, d, o, i, o)
           ELSE IF i > o /\ list[i + 1].via.sym = sym /\ HasSit(list[i], r, d - 1, o)
             THEN LET left == BestKids(g, list, r, d - 1, o, i - 1)
                  IN  IF left.kind = "NONE" THEN NoTree
                      ELSE ANode(g, r, Append(left.kids, LeafOf(list[i + 1])))
           ELSE NoTree

\* The best way to split the first d symbols at a set k..i, leftmost first.
BestOfSplits(g, list, r, d, o, i, k) ==
  IF k > i THEN NoTree
  ELSE LET sub == IF HasSit(list[k + 1], r, d - 1, o)
                    THEN BestTree(g, list, Rhs(g, r)[d], k, i) ELSE NoTree
           left == IF sub.kind = "NONE" THEN NoTree
                   ELSE BestKids(g, list, r, d - 1, o, k)
           here == IF left.kind = "NONE" THEN NoTree
                   ELSE ANode(g, r, Append(left.kids, sub))
       IN  Cheaper(here, BestOfSplits(g, list, r, d, o, i, k + 1))

\* The best tree over the rules q, q+1, ... of nonterminal x, lowest rule first.
BestOfRules(g, list, x, o, i, q) ==
  IF q > Len(g.rules) THEN NoTree
  ELSE LET here == IF Lhs(g, q) = x /\ HasSit(list[i + 1], q, Len(Rhs(g, q)), o)
                     THEN BestKids(g, list, q, Len(Rhs(g, q)), o, i) ELSE NoTree
       IN  Cheaper(here, BestOfRules(g, list, x, o, i, q + 1))

\* The minimum-cost tree of nonterminal x between sets o and i.
BestTree(g, list, x, o, i) == BestOfRules(g, list, x, o, i, 1)

\* The tree of an accepted parse: the start symbol's tree over the whole list.
ExtractTree(g, list) == BestTree(g, list, Rhs(g, 1)[1], 0, Len(list) - 1)

RECURSIVE CountKind(_, _)
RECURSIVE CountKindSeq(_, _)
CountKindSeq(kids, kind) ==
  IF kids = <<>> THEN 0 ELSE CountKind(Head(kids), kind) + CountKindSeq(Tail(kids), kind)

CountKind(t, kind) == (IF t.kind = kind THEN 1 ELSE 0) + CountKindSeq(t.kids, kind)

(***************************************************************************)
(* PARSE: the lifecycle of one parser on one grammar handle                *)
(***************************************************************************)

\* Bounds of the parser model.
MaxLen == 3          \* tokens the reader delivers before the end of input

LookaheadLevels == {0, 1, 2}

\* The token sequences a reader can deliver for grammar g.
Inputs(g) == SeqsUpTo(TokenCodes(g), MaxLen)

NoParse ==
  [valid |-> FALSE, cfg |-> [lookahead |-> 1, recovery |-> FALSE], rc |-> "none",
   tree |-> NoTree, calls |-> <<>>, events |-> 0]

\* The record of a parse that has returned.
ParseOutcome ==
  [valid |-> TRUE, cfg |-> pCfg, rc |-> pRc, tree |-> pTree, calls |-> pCalls,
   events |-> pEvents]

\* One invocation of the syntax-error callback.
SyntaxErrorCall(err, ignored, recovered) ==
  [err_tok_num |-> err, start_ignored_tok_num |-> ignored,
   start_recovered_tok_num |-> recovered]

\* earley_engine_create(grammar).
earley_engine_create(g) == [grammar |-> g]

\* A reset that lets go of the grammar.
earley_engine_reset_forgets(e) == [e EXCEPT !.grammar = 0]

\* earley_engine_reset(engine): the grammar pointer remains unchanged.
earley_engine_reset(e) == e

PG == pGrammar

LastSet == pList[Len(pList)]

CanScan == pTok < Len(pInput) /\ Scan(PG, LastSet, pInput[pTok + 1]) # {}

AtEnd == pTok = Len(pInput)

ParseFresh ==
  /\ pCfg = NoParse.cfg
  /\ pPhase = "Init"
  /\ pList = <<>>
  /\ pTok = 0
  /\ pErrTok = -1
  /\ pRec = NoRecovery
  /\ pCode = "none"
  /\ pRc = "none"
  /\ pTree = NoTree
  /\ pCalls = <<>>
  /\ pEvents = 0
  /\ pPrev = NoParse

ParseInit0 ==
  /\ \E id \in GrammarIds :
       /\ pGrammar = Finalize(id)
       /\ engine = earley_engine_create(id)
  /\ pInput \in Inputs(pGrammar)
  /\ ParseFresh

ParseIdle ==
  /\ pGrammar = Finalize(1)
  /\ engine = earley_engine_create(1)
  /\ pInput = <<>>
  /\ ParseFresh

\* parse is called with the lookahead level and the recovery flag the
\* configuration setters have left: bootstrap.
ParseStart(lvl, rec) ==
  /\ pPhase = "Init"
  /\ pCfg' = [lookahead |-> lvl, recovery |-> rec]
  /\ pPhase' = "BuildingList"
  /\ pList' = <<BootstrapSet(PG, lvl, TokenAt(pInput, 0))>>
  /\ UNCHANGED <<engine, pGrammar, pInput, pTok, pErrTok, pRec, pCode, pRc, pTree, pCalls,
                 pEvents, pPrev>>
  /\ UNCHANGED notParseVars

\* Read token, scan, closure, record the set.
ParseToken ==
  /\ pPhase = "BuildingList"
  /\ CanScan
  /\ pList' = Append(pList, NextSet(PG, pCfg.lookahead, pList, pInput[pTok + 1],
                                    pTok, pTok + 1, TokenAt(pInput, pTok + 1)))
  /\ pTok' = pTok + 1
  /\ UNCHANGED <<engine, pGrammar, pInput, pCfg, pPhase, pErrTok, pRec, pCode, pRc, pTree,
                 pCalls, pEvents, pPrev>>
  /\ UNCHANGED notParseVars

\* Termination: end of input in an accepting set.
ParseAccept ==
  /\ pPhase = "BuildingList"
  /\ AtEnd /\ Accepts(PG, LastSet)
  /\ pPhase' = "Accepting"
  /\ pCode' = "0"
  /\ UNCHANGED <<engine, pGrammar, pInput, pCfg, pList, pTok, pErrTok, pRec, pRc, pTree,
                 pCalls, pEvents, pPrev>>
  /\ UNCHANGED notParseVars

\* A syntax error that fails the parse without invoking the callback.
ParseSyntaxErrorSilent ==
  /\ pPhase = "BuildingList"
  /\ ~CanScan /\ ~(AtEnd /\ Accepts(PG, LastSet))
  /\ ~pCfg.recovery
  /\ pEvents' = pEvents + 1
  /\ pErrTok' = pTok
  /\ pPhase' = "Failed"
  /\ pCode' = "ParseSyntax"
  /\ UNCHANGED <<engine, pGrammar, pInput, pCfg, pList, pTok, pRec, pRc, pTree, pCalls,
                 pPrev>>
  /\ UNCHANGED notParseVars

\* Error check with recovery disabled: the error token is reported through the
\* callback and the parse fails with ParseSyntax.
ParseSyntaxError ==
  /\ pPhase = "BuildingList"
  /\ ~CanScan /\ ~(AtEnd /\ Accepts(PG, LastSet))
  /\ ~pCfg.recovery
  /\ pEvents' = pEvents + 1
  /\ pErrTok' = pTok
  /\ pCalls' = Append(pCalls, SyntaxErrorCall(pTok, -1, -1))
  /\ pPhase' = "Failed"
  /\ pCode' = "ParseSyntax"
  /\ UNCHANGED <<engine, pGrammar, pInput, pCfg, pList, pTok, pRec, pRc, pTree, pPrev>>
  /\ UNCHANGED notParseVars

\* Error check with recovery enabled: an error event; the recovery subsystem
\* searches for a resynchronization position.
ParseErrorEvent ==
  /\ pPhase = "BuildingList"
  /\ ~CanScan /\ ~(AtEnd /\ Accepts(PG, LastSet))
  /\ pCfg.recovery
  /\ pEvents' = pEvents + 1
  /\ pErrTok' = pTok
  /\ pRec' = Recovery(PG, pCfg.lookahead, pList, pInput, pTok)
  /\ pPhase' = "ErrorRecovering"
  /\ UNCHANGED <<engine, pGrammar, pInput, pCfg, pList, pTok, pCode, pRc, pTree, pCalls,
                 pPrev>>
  /\ UNCHANGED notParseVars

\* A resumption that does not emit the callback.
ParseRecoverResumeSilent ==
  /\ pPhase = "ErrorRecovering"
  /\ pRec.ok
  /\ pRec.recovered < Len(pInput)
  /\ pList' = pRec.list
  /\ pTok' = pRec.recovered
  /\ pRec' = NoRecovery
  /\ pPhase' = "BuildingList"
  /\ UNCHANGED <<engine, pGrammar, pInput, pCfg, pErrTok, pCode, pRc, pTree, pCalls,
                 pEvents, pPrev>>
  /\ UNCHANGED notParseVars

\* A recovery was found and tokens remain: the callback is emitted with the
\* three indices and the parse resumes.
ParseRecoverResume ==
  /\ pPhase = "ErrorRecovering"
  /\ pRec.ok
  /\ pRec.recovered < Len(pInput)
  /\ pCalls' = Append(pCalls, SyntaxErrorCall(pErrTok, pRec.ignored, pRec.recovered))
  /\ pList' = pRec.list
  /\ pTok' = pRec.recovered
  /\ pRec' = NoRecovery
  /\ pPhase' = "BuildingList"
  /\ UNCHANGED <<engine, pGrammar, pInput, pCfg, pErrTok, pCode, pRc, pTree, pEvents, pPrev>>
  /\ UNCHANGED notParseVars

\* A recovery was found that discards the rest of the input and ends in an
\* accepting set.
ParseRecoverAccept ==
  /\ pPhase = "ErrorRecovering"
  /\ pRec.ok
  /\ pRec.recovered = Len(pInput)
  /\ pCalls' = Append(pCalls, SyntaxErrorCall(pErrTok, pRec.ignored, pRec.recovered))
  /\ pList' = pRec.list
  /\ pTok' = pRec.recovered
  /\ pRec' = NoRecovery
  /\ pPhase' = "Accepting"
  /\ pCode' = "0"
  /\ UNCHANGED <<engine, pGrammar, pInput, pCfg, pErrTok, pRc, pTree, pEvents, pPrev>>
  /\ UNCHANGED notParseVars

\* No recovery: one callback invocation without ignored tokens, ParseSyntax.
ParseRecoverFail ==
  /\ pPhase = "ErrorRecovering"
  /\ ~pRec.ok
  /\ pCalls' = Append(pCalls, SyntaxErrorCall(pErrTok, -1, -1))
  /\ pPhase' = "Failed"
  /\ pCode' = "ParseSyntax"
  /\ UNCHANGED <<engine, pGrammar, pInput, pCfg, pList, pTok, pErrTok, pRec, pRc, pTree,
                 pEvents, pPrev>>
  /\ UNCHANGED notParseVars

\* parse returns: the forest of an accepted parse is extracted and handed out
\* with code 0, a failed parse returns its error code.
ParseReturn ==
  /\ pPhase \in {"Accepting", "Failed"}
  /\ pRc = "none"
  /\ pRc' = pCode
  /\ pTree' = IF pPhase = "Accepting" THEN ExtractTree(PG, pList) ELSE NoTree
  /\ UNCHANGED <<engine, pGrammar, pInput, pCfg, pPhase, pList, pTok, pErrTok, pRec, pCode,
                 pCalls, pEvents, pPrev>>
  /\ UNCHANGED notParseVars

\* A reset that leaves the reader position of the parse before.
ParseResetKeepsPosition ==
  /\ pPhase \in {"Accepting", "Failed"}
  /\ pRc # "none"
  /\ engine' = earley_engine_reset(engine)
  /\ pPrev' = ParseOutcome
  /\ pPhase' = "Init"
  /\ pList' = <<>>
  /\ pErrTok' = -1
  /\ pCode' = "none"
  /\ pRc' = "none"
  /\ pTree' = NoTree
  /\ pCalls' = <<>>
  /\ pEvents' = 0
  /\ UNCHANGED <<pGrammar, pInput, pCfg, pRec, pTok>>
  /\ UNCHANGED notParseVars

\* Reset between two parses: parse-scoped state is cleared, the engine keeps
\* what earley_engine_reset leaves it.
ParseReset ==
  /\ pPhase \in {"Accepting", "Failed"}
  /\ pRc # "none"
  /\ engine' = earley_engine_reset(engine)
  /\ pPrev' = ParseOutcome
  /\ pPhase' = "Init"
  /\ pList' = <<>>
  /\ pTok' = 0
  /\ pErrTok' = -1
  /\ pCode' = "none"
  /\ pRc' = "none"
  /\ pTree' = NoTree
  /\ pCalls' = <<>>
  /\ pEvents' = 0
  /\ UNCHANGED <<pGrammar, pInput, pCfg, pRec>>
  /\ UNCHANGED notParseVars

ParseNext ==
  \/ \E lvl \in LookaheadLevels, rec \in BOOLEAN : ParseStart(lvl, rec)
  \/ ParseToken
  \/ ParseAccept
  \/ ParseSyntaxError
  \/ ParseErrorEvent
  \/ ParseRecoverResume
  \/ ParseRecoverAccept
  \/ ParseRecoverFail
  \/ ParseReturn
  \/ ParseReset

(***************************************************************************)
(* MEMORY POOL  (src/src/mem_pool.c)                                       *)
(*                                                                         *)
(* Addresses are numbers, NULL is 0.  The host allocator places the blocks *)
(* of a pool back to back; a block is its header (one pointer) followed by *)
(* items_per_block items of item_size bytes.                               *)
(***************************************************************************)

MaxPoolCalls == 7        \* calls on the pool API in one run
MaxItemsPerBlock == 2    \* largest items_per_block passed to pool_create

PointerSize == 8         \* sizeof(void*)

\* The item sizes the client asks for: none, less than a pointer, more than one.
ItemSizes == {0, 1, PointerSize + 4}

\* align_size: round up to a multiple of the pointer size.
align_size(size) == ((size + PointerSize - 1) \div PointerSize) * PointerSize

\* The NULL pool handle.
NullPool == [null |-> TRUE]

\* pool_create: NULL for an invalid parameter or a failed allocation of the pool
\* structure, else the initialised pool.
pool_create_unchecked(item_size, items_per_block, host_ok) ==
  IF ~host_ok
    THEN NullPool
    ELSE [null |-> FALSE,
          item_size |-> align_size(item_size), items_per_block |-> items_per_block,
          blocks |-> <<>>, current_block |-> 0, current_offset |-> 0,
          free_list |-> 0, total_allocated |-> 0, total_freed |-> 0,
          blocks_allocated |-> 0]

pool_create(item_size, items_per_block, host_ok) ==
  IF item_size = 0 \/ items_per_block = 0
    THEN NullPool
  ELSE IF ~host_ok
    THEN NullPool
  ELSE LET aligned == align_size(item_size)
       IN [null |-> FALSE,
           item_size |-> IF aligned < PointerSize THEN PointerSize ELSE aligned,
           items_per_block |-> items_per_block,
           blocks |-> <<>>, current_block |-> 0, current_offset |-> 0,
           free_list |-> 0, total_allocated |-> 0, total_freed |-> 0,
           blocks_allocated |-> 0]

\* The address the host gives block number b of the pool.
HostBase(pl, b) == b * (PointerSize + pl.item_size * pl.items_per_block)

\* NULL and every address an item of a pool can have within the bounds.
PoolAddresses ==
  0..((MaxPoolCalls + 1) * (PointerSize + align_size(PointerSize + 4) * MaxItemsPerBlock))

\* An item address that leaves out the block.
ItemAddrIgnoresBlock(pl, block, offset) == PointerSize + offset * pl.item_size

\* (char*)(current_block + 1) + current_offset * item_size.
ItemAddr(pl, block, offset) == HostBase(pl, block) + PointerSize + offset * pl.item_size

\* A block allocation that counts the block before it knows the host gave one.
allocate_block_counts_attempt(pl, new_block) ==
  IF new_block = 0
    THEN [pool |-> [pl EXCEPT !.blocks_allocated = @ + 1], block |-> 0]
    ELSE [pool |-> [pl EXCEPT !.blocks = <<new_block>> \o @,
                              !.blocks_allocated = @ + 1],
          block |-> new_block]

\* allocate_block: new_block is what the host's malloc returned (0: failure).
allocate_block(pl, new_block) ==
  IF new_block = 0
    THEN [pool |-> pl, block |-> 0]
    ELSE [pool |-> [pl EXCEPT !.blocks = <<new_block>> \o @,
                              !.blocks_allocated = @ + 1],
          block |-> new_block]

\* A bump allocation that asks for a new block one item too late.
pool_alloc_bump_late(pl, new_block) ==
  LET need == pl.current_block = 0 \/ pl.current_offset > pl.items_per_block
      ab == IF need THEN allocate_block(pl, new_block)
                    ELSE [pool |-> pl, block |-> pl.current_block]
  IN IF need /\ ab.block = 0
       THEN [pool |-> [ab.pool EXCEPT !.current_block = 0], item |-> 0]
       ELSE LET p1 == [ab.pool EXCEPT !.current_block = ab.block,
                                      !.current_offset = IF need THEN 0 ELSE @]
            IN [pool |-> [p1 EXCEPT !.current_offset = @ + 1,
                                    !.total_allocated = @ + 1],
                item |-> ItemAddr(p1, p1.current_block, p1.current_offset)]

\* The bump-pointer part of pool_alloc.
pool_alloc_bump(pl, new_block) ==
  LET need == pl.current_block = 0 \/ pl.current_offset >= pl.items_per_block
      ab == IF need THEN allocate_block(pl, new_block)
                    ELSE [pool |-> pl, block |-> pl.current_block]
  IN IF need /\ ab.block = 0
       THEN [pool |-> [ab.pool EXCEPT !.current_block = 0], item |-> 0]
       ELSE LET p1 == [ab.pool EXCEPT !.current_block = ab.block,
                                      !.current_offset = IF need THEN 0 ELSE @]
            IN [pool |-> [p1 EXCEPT !.current_offset = @ + 1,
                                    !.total_allocated = @ + 1],
                item |-> ItemAddr(p1, p1.current_block, p1.current_offset)]

\* An allocation that takes from the current block while it has room and from
\* the free list only after that.
pool_alloc_fresh_first(pl, mem, new_block) ==
  IF pl.null
    THEN [pool |-> pl, item |-> 0]
  ELSE IF pl.free_list # 0
          /\ (pl.current_block = 0 \/ pl.current_offset >= pl.items_per_block)
    THEN [pool |-> [pl EXCEPT !.free_list = mem[pl.free_list],
                              !.total_allocated = @ + 1],
          item |-> pl.free_list]
  ELSE pool_alloc_bump(pl, new_block)

\* pool_alloc: free list first, then the current block, then a new block.
pool_alloc(pl, mem, new_block) ==
  IF pl.null
    THEN [pool |-> pl, item |-> 0]
  ELSE IF pl.free_list # 0
    THEN [pool |-> [pl EXCEPT !.free_list = mem[pl.free_list],
                              !.total_allocated = @ + 1],
          item |-> pl.free_list]
  ELSE pool_alloc_bump(pl, new_block)

\* A free that links the item and does not count it.
pool_free_uncounted(pl, mem, item) ==
  IF pl.null \/ item = 0
    THEN [pool |-> pl, mem |-> mem]
    ELSE [pool |-> [pl EXCEPT !.free_list = item],
          mem |-> (item :> pl.free_list) @@ mem]

\* pool_free: the item becomes the head of the free list; its first bytes hold
\* the old head.
pool_free(pl, mem, item) ==
  IF pl.null \/ item = 0
    THEN [pool |-> pl, mem |-> mem]
    ELSE [pool |-> [pl EXCEPT !.free_list = item, !.total_freed = @ + 1],
          mem |-> (item :> pl.free_list) @@ mem]

\* The host allocator: the blocks it has handed out and not got back, how often
\* each block was released, and whether the pool structure is allocated.
Host0 == [blocks |-> {}, released |-> <<>>, struct |-> FALSE]

\* A destroy that does not release the block at the head of the list.
pool_destroy_keeps_head(pl, host) ==
  IF pl.null
    THEN host
    ELSE [blocks |-> host.blocks \ {pl.blocks[k] : k \in 2..Len(pl.blocks)},
          released |-> [b \in DOMAIN host.released |->
                          host.released[b]
                            + Cardinality({k \in 2..Len(pl.blocks) : pl.blocks[k] = b})],
          struct |-> FALSE]

\* pool_destroy: every block of the list goes back to the host, then the pool
\* structure.
pool_destroy(pl, host) ==
  IF pl.null
    THEN host
    ELSE [blocks |-> host.blocks \ {pl.blocks[k] : k \in DOMAIN pl.blocks},
          released |-> [b \in DOMAIN host.released |->
                          host.released[b]
                            + Cardinality({k \in DOMAIN pl.blocks : pl.blocks[k] = b})],
          struct |-> FALSE]

\* The walk of pool_stats over the free list; -1 stands for a walk that does
\* not end (the list is a cycle).
RECURSIVE FreeListWalk(_, _, _)
FreeListWalk(node, mem, fuel) ==
  IF node = 0 THEN 0
  ELSE IF fuel = 0 THEN -1
  ELSE LET rest == FreeListWalk(mem[node], mem, fuel - 1)
       IN IF rest < 0 THEN -1 ELSE rest + 1

\* pool_stats with all four output parameters.
pool_stats(pl, mem) ==
  [total_allocated |-> pl.total_allocated, total_freed |-> pl.total_freed,
   blocks_allocated |-> pl.blocks_allocated,
   free_list_length |-> FreeListWalk(pl.free_list, mem, Cardinality(DOMAIN mem))]

\* What has happened on the pool since pool_create, counted beside the code:
\* allocations that returned an item, pool_free calls with a pool and an item,
\* allocations made while the pool's free list was not empty and while it was
\* empty, a failed host allocation, a free of an item the client did not hold,
\* the freed items not yet handed out again (last freed first), and every item
\* handed out so far.
PoolSeen0 ==
  [returned |-> 0, freed |-> 0, reused |-> 0, fresh_calls |-> 0,
   host_failed |-> FALSE, misused |-> FALSE, stack |-> <<>>, handed |-> {}]

NoStats == [total_allocated |-> 0, total_freed |-> 0, blocks_allocated |-> 0,
            free_list_length |-> 0]

PoolSnapshot ==
  [pool |-> pool, mem |-> poolMem, host |-> poolHost, live |-> poolLive,
   seen |-> poolSeen]

NoPoolCall ==
  [op |-> "none", null_pool |-> TRUE, item |-> 0, item_size |-> 0,
   items_per_block |-> 0, ret_item |-> 0, ret_stats |-> NoStats,
   host_refused |-> FALSE,
   before |-> [pool |-> NullPool, mem |-> <<>>, host |-> Host0, live |-> {},
               seen |-> PoolSeen0]]

PoolCall(op, null_pool, item, ret_item) ==
  [NoPoolCall EXCEPT !.op = op, !.null_pool = null_pool, !.item = item,
                     !.ret_item = ret_item, !.before = PoolSnapshot]

PoolInit0 ==
  /\ pool = NullPool
  /\ poolMem = <<>>
  /\ poolLive = {}
  /\ poolHost = Host0
  /\ poolLast = NoPoolCall
  /\ poolSeen = PoolSeen0
  /\ poolCalls = 0

PoolIdle == PoolInit0

\* pool = pool_create(alloc, item_size, items_per_block).
PoolCreate(item_size, items_per_block, host_ok) ==
  /\ poolCalls < MaxPoolCalls
  /\ pool.null
  /\ LET made == pool_create(item_size, items_per_block, host_ok)
     IN /\ pool' = made
        /\ poolHost' = IF made.null THEN poolHost ELSE [Host0 EXCEPT !.struct = TRUE]
        /\ poolLast' = [PoolCall("create", made.null, 0, 0) EXCEPT
                          !.item_size = item_size, !.items_per_block = items_per_block]
  /\ poolMem' = <<>>
  /\ poolLive' = {}
  /\ poolSeen' = PoolSeen0
  /\ poolCalls' = poolCalls + 1
  /\ UNCHANGED notPoolVars

\* item = pool_alloc(pool) or pool_alloc(NULL); host_ok tells whether the host
\* allocator can give a block if the call asks for one.
PoolAlloc(null_pool, host_ok) ==
  /\ poolCalls < MaxPoolCalls
  /\ ~null_pool => ~pool.null
  /\ LET arg == IF null_pool THEN NullPool ELSE pool
         new_block == IF host_ok THEN Len(poolHost.released) + 1 ELSE 0
         r == pool_alloc(arg, poolMem, new_block)
         took == ~arg.null /\ r.pool.blocks_allocated > arg.blocks_allocated
         asked == /\ ~arg.null /\ arg.free_list = 0
                  /\ (arg.current_block = 0 \/ arg.current_offset >= arg.items_per_block)
     IN /\ pool' = IF null_pool THEN pool ELSE r.pool
        /\ poolHost' = IF took
                         THEN [poolHost EXCEPT !.blocks = @ \cup {new_block},
                                               !.released = Append(@, 0)]
                         ELSE poolHost
        /\ poolLive' = IF r.item # 0 THEN poolLive \cup {r.item} ELSE poolLive
        /\ poolLast' = [PoolCall("alloc", null_pool, 0, r.item) EXCEPT
                          !.host_refused = asked /\ ~host_ok]
        /\ poolSeen' =
             IF arg.null THEN poolSeen
             ELSE [poolSeen EXCEPT
                     !.returned = @ + (IF r.item # 0 THEN 1 ELSE 0),
                     !.reused = @ + (IF arg.free_list # 0 THEN 1 ELSE 0),
                     !.fresh_calls = @ + (IF arg.free_list = 0 THEN 1 ELSE 0),
                     !.host_failed = @ \/ r.item = 0,
                     !.stack = IF @ = <<>> THEN @ ELSE Tail(@),
                     !.handed = IF r.item # 0 THEN @ \cup {r.item} ELSE @]
  /\ poolCalls' = poolCalls + 1
  /\ UNCHANGED poolMem
  /\ UNCHANGED notPoolVars

\* pool_free(pool, item) or pool_free(NULL, item); the item is NULL, an item the
\* client holds, or an item it has freed already (a double free).
PoolFree(null_pool, item) ==
  /\ poolCalls < MaxPoolCalls
  /\ ~null_pool => ~pool.null
  /\ item \in {0} \cup poolSeen.handed
  /\ LET arg == IF null_pool THEN NullPool ELSE pool
         r == pool_free(arg, poolMem, item)
         counts == ~arg.null /\ item # 0
     IN /\ pool' = IF null_pool THEN pool ELSE r.pool
        /\ poolMem' = r.mem
        /\ poolLive' = IF counts THEN poolLive \ {item} ELSE poolLive
        /\ poolLast' = PoolCall("free", null_pool, item, 0)
        /\ poolSeen' =
             IF ~counts THEN poolSeen
             ELSE [poolSeen EXCEPT !.freed = @ + 1,
                                   !.misused = @ \/ item \notin poolLive,
                                   !.stack = <<item>> \o @]
  /\ poolCalls' = poolCalls + 1
  /\ UNCHANGED poolHost
  /\ UNCHANGED notPoolVars

\* pool_destroy(pool) or pool_destroy(NULL); after it the client has no handle
\* and holds no item.
PoolDestroy(null_pool) ==
  /\ poolCalls < MaxPoolCalls
  /\ ~null_pool => ~pool.null
  /\ poolHost' = pool_destroy(IF null_pool THEN NullPool ELSE pool, poolHost)
  /\ poolLast' = PoolCall("destroy", null_pool, 0, 0)
  /\ IF null_pool
       THEN UNCHANGED <<pool, poolMem, poolLive, poolSeen>>
       ELSE /\ pool' = NullPool
            /\ poolMem' = <<>>
            /\ poolLive' = {}
            /\ poolSeen' = PoolSeen0
  /\ poolCalls' = poolCalls + 1
  /\ UNCHANGED notPoolVars

\* pool_stats(pool, &a, &f, &b, &l); with a NULL pool nothing is written.
PoolStats(null_pool) ==
  /\ poolCalls < MaxPoolCalls
  /\ ~null_pool => ~pool.null
  /\ poolLast' = [PoolCall("stats", null_pool, 0, 0) EXCEPT
                    !.ret_stats = IF null_pool THEN NoStats
                                  ELSE pool_stats(pool, poolMem)]
  /\ poolCalls' = poolCalls + 1
  /\ UNCHANGED <<pool, poolMem, poolLive, poolHost, poolSeen>>
  /\ UNCHANGED notPoolVars

PoolNext ==
  \/ \E item_size \in ItemSizes, items_per_block \in 0..MaxItemsPerBlock,
        host_ok \in BOOLEAN :
       PoolCreate(item_size, items_per_block, host_ok)
  \/ \E null_pool \in BOOLEAN, host_ok \in BOOLEAN : PoolAlloc(null_pool, host_ok)
  \/ \E null_pool \in BOOLEAN, item \in PoolAddresses : PoolFree(null_pool, item)
  \/ \E null_pool \in BOOLEAN : PoolDestroy(null_pool)
  \/ \E null_pool \in BOOLEAN : PoolStats(null_pool)

(***************************************************************************)
(* UTF-8 ITERATION, VALIDATION AND TRUNCATION ON ONE STRING                *)
(* (src/src/unicode/yaep_unicode.c)                                        *)
(***************************************************************************)

\* Bounds of the string model.
MaxStrLen == 5       \* bytes before the NUL
MaxDstSize == 7      \* largest destination buffer given to the truncation

\* The bytes strings are made of: 'a', the continuation bytes 0x85 and 0xA9,
\* and the lead bytes 0xC3 (two bytes), 0xED (three bytes; followed by 0xA9 a
\* surrogate) and 0xF0 (four bytes; followed by 0x85 an overlong form).
UtfBytes == {97, 133, 169, 195, 237, 240}

UtfStrings == SeqsUpTo(UtfBytes, MaxStrLen)

\* What a read outside an object can deliver: a byte below 0x80 or one above.
StrayBytes == {0, 169}

\* The byte yaep_utf8_next_with_len gets at position k: the string's byte up
\* to the NUL, and whatever lies behind the NUL after it.
ByteOrBeyond(s, k, junk) == IF k <= Len(s) + 1 THEN ByteAt(s, k) ELSE junk

\* yaep_utf8_next_with_len(&p, &len) with p at position i: the code point, the
\* new position, the length written, and the last position it read.
yaep_utf8_next_with_len(s, i, junk) ==
  LET c == ByteOrBeyond(s, i, junk)
      c1 == ByteOrBeyond(s, i + 1, junk)
      c2 == ByteOrBeyond(s, i + 2, junk)
      c3 == ByteOrBeyond(s, i + 3, junk)
      Invalid(last) == [cp |-> YAEP_CODEPOINT_INVALID, next |-> i, len |-> 0,
                        last_read |-> last]
  IN  IF c = 0 THEN [cp |-> YAEP_CODEPOINT_EOS, next |-> i, len |-> 0, last_read |-> i]
      ELSE IF c < 128 THEN [cp |-> c, next |-> i + 1, len |-> 1, last_read |-> i]
      ELSE IF c >= 192 /\ c < 224 THEN
        IF ~utf_cont(c1) THEN Invalid(i + 1)
        ELSE [cp |-> (c % 32) * 64 + (c1 % 64), next |-> i + 2, len |-> 2,
              last_read |-> i + 1]
      ELSE IF c >= 224 /\ c < 240 THEN
        IF ~utf_cont(c1) \/ ~utf_cont(c2) THEN Invalid(i + 2)
        ELSE [cp |-> (c % 16) * 4096 + (c1 % 64) * 64 + (c2 % 64), next |-> i + 3,
              len |-> 3, last_read |-> i + 2]
      ELSE IF c >= 240 /\ c < 248 THEN
        IF ~utf_cont(c1) \/ ~utf_cont(c2) \/ ~utf_cont(c3) THEN Invalid(i + 3)
        ELSE [cp |-> (c % 8) * 262144 + (c1 % 64) * 4096 + (c2 % 64) * 64 + (c3 % 64),
              next |-> i + 4, len |-> 4, last_read |-> i + 3]
      ELSE Invalid(i)

Ellipsis == <<46, 46, 46>>

\* The backward loop of yaep_utf8_truncate_safe: i moves over the continuation
\* bytes at the end of the copied prefix.
RECURSIVE TruncateBackUp(_, _)
TruncateBackUp(dst, i) ==
  IF i > 0 /\ utf_cont(dst[i]) THEN TruncateBackUp(dst, i - 1) ELSE i

\* yaep_utf8_truncate_safe(src, dst, dst_size): the value returned and the
\* string left in dst (its bytes before the first NUL).  With dst_size 1 the
\* test of the last copied byte reads dst[-1]; stray is what that read gives.
yaep_utf8_truncate_safe(src, dst_size, stray) ==
  IF dst_size = 0 THEN [ret |-> 0, out |-> <<>>, written |-> FALSE]
  ELSE
    LET max_copy == dst_size - 1
        copied == SubSeq(src, 1, max_copy)
        last == IF max_copy = 0 THEN stray ELSE copied[max_copy]
        i0 == TruncateBackUp(copied, max_copy)
        i == IF i0 > 0 THEN i0 - 1 ELSE i0
    IN  IF Len(src) <= max_copy THEN [ret |-> 1, out |-> src, written |-> TRUE]
        ELSE IF last < 128 THEN
          [ret |-> 0, written |-> TRUE,
           out |-> IF max_copy >= 3
                     THEN SubSeq(copied, 1, max_copy - 3) \o Ellipsis
                     ELSE copied]
        ELSE IF i = 0 THEN
          [ret |-> 0, written |-> TRUE,
           out |-> IF dst_size > 4 THEN Ellipsis ELSE <<>>]
        ELSE
          [ret |-> 0, written |-> TRUE,
           out |-> IF i + 3 <= max_copy
                     THEN SubSeq(copied, 1, i) \o Ellipsis
                     ELSE SubSeq(copied, 1, i)]

NoValidation == [ret |-> 1, len |-> 0, error_offset |-> 0, error_code |-> 0]

NoUtfCall ==
  [op |-> "none", pos |-> 1, cp |-> 0, len |-> 0, last_read |-> 0,
   dst_size |-> 0, ret |-> 0, out |-> <<>>, valid |-> NoValidation]

UtfInit0 ==
  /\ uStr \in UtfStrings
  /\ uPos = 1
  /\ uCall = NoUtfCall

UtfIdle ==
  /\ uStr = <<>>
  /\ uPos = 1
  /\ uCall = NoUtfCall

\* cp = yaep_utf8_next(&p).
Utf8Next ==
  /\ LET r == yaep_utf8_next(uStr, uPos)
     IN /\ uPos' = r.next
        /\ uCall' = [NoUtfCall EXCEPT !.op = "next", !.pos = uPos, !.cp = r.cp]
  /\ UNCHANGED uStr
  /\ UNCHANGED notUtfVars

\* cp = yaep_utf8_next_with_len(&p, &len).
Utf8NextWithLen(junk) ==
  /\ LET r == yaep_utf8_next_with_len(uStr, uPos, junk)
     IN /\ uPos' = r.next
        /\ uCall' = [NoUtfCall EXCEPT !.op = "next_with_len", !.pos = uPos,
                                      !.cp = r.cp, !.len = r.len,
                                      !.last_read = r.last_read]
  /\ UNCHANGED uStr
  /\ UNCHANGED notUtfVars

\* ok = yaep_utf8_validate(str, &len, &error_offset, &error_code) on the whole
\* string.
Utf8Validate ==
  /\ LET v == yaep_utf8_validate(uStr)
     IN uCall' = [NoUtfCall EXCEPT !.op = "validate", !.ret = v.ret, !.valid = v]
  /\ UNCHANGED <<uStr, uPos>>
  /\ UNCHANGED notUtfVars

\* rc = yaep_utf8_truncate_safe(str, dst, dst_size); what lies before dst
\* matters for dst_size 1 only.
Utf8Truncate(dst_size, stray) ==
  /\ dst_size # 1 => stray = 0
  /\ LET t == yaep_utf8_truncate_safe(uStr, dst_size, stray)
     IN uCall' = [NoUtfCall EXCEPT !.op = "truncate", !.dst_size = dst_size,
                                   !.ret = t.ret, !.out = t.out]
  /\ UNCHANGED <<uStr, uPos>>
  /\ UNCHANGED notUtfVars

\* A client that validates and walks the string.
UtfNext ==
  \/ Utf8Next
  \/ \E junk \in StrayBytes : Utf8NextWithLen(junk)
  \/ Utf8Validate

\* A client that copies the string into buffers of every size.
TruncNext ==
  \E dst_size \in 0..MaxDstSize, stray \in StrayBytes : Utf8Truncate(dst_size, stray)

(***************************************************************************)
(* ERROR BOUNDARY  (src/src/yaep_error.c)                                  *)
(*                                                                         *)
(* A boundary is the local variable of one yaep_run_with_error_boundary    *)
(* call; it is named by the depth of that call, 0 is NULL.                 *)
(***************************************************************************)

\* Bounds of the boundary model.
MaxNesting == 3      \* protected functions running inside one another
MaxBndCalls == 5     \* calls started in one run

\* Codes given to yaep_error_boundary_raise and results of protected functions.
RaiseCodes == {-1, 0, 1, 2}

FnResults == {0, 2}

\* yaep_error_boundary_push(boundary).
yaep_error_boundary_push(top, prev, boundary) ==
  IF boundary = 0 THEN [top |-> top, prev |-> prev]
  ELSE [top |-> boundary, prev |-> (boundary :> top) @@ prev]

\* A pop that leaves the top where it is.
yaep_error_boundary_pop_keeps(top, prev) == [top |-> top, prev |-> prev]

\* yaep_error_boundary_pop(); the boundary popped ends with its call.
yaep_error_boundary_pop(top, prev) ==
  IF top # 0
    THEN [top |-> prev[top], prev |-> [b \in DOMAIN prev \ {top} |-> prev[b]]]
    ELSE [top |-> top, prev |-> prev]

\* A setjmp that returns 1 after every longjmp.
setjmp_after_longjmp_one(code) == 1

\* What setjmp returns after longjmp(env, code): code, and 1 for code 0.
setjmp_after_longjmp(code) == IF code = 0 THEN 1 ELSE code

\* The boundaries from yaep_boundary_top along the prev fields.
RECURSIVE BoundaryStack(_, _, _)
BoundaryStack(top, prev, fuel) ==
  IF top = 0 \/ fuel = 0 \/ top \notin DOMAIN prev THEN <<>>
  ELSE <<top>> \o BoundaryStack(prev[top], prev, fuel - 1)

\* yaep_error_boundary_is_active().
yaep_error_boundary_is_active(top) == IF top # 0 THEN 1 ELSE 0

NoBndCall ==
  [op |-> "none", how |-> "none", value |-> 0, ret |-> 0, depth |-> 0, target |-> 0,
   entry_stack |-> <<>>, exit_stack |-> <<>>]

BndInit0 ==
  /\ bTop = 0
  /\ bPrev = <<>>
  /\ bFrames = <<>>
  /\ bLast = NoBndCall
  /\ bCalls = 0
  /\ bAborted = FALSE

BndIdle == BndInit0

\* yaep_run_with_error_boundary(fn, user) up to the call of fn: the boundary
\* is pushed and setjmp returns 0; with fn NULL the call pops and returns 0.
BndRunEnter(fn_null) ==
  /\ ~bAborted
  /\ bCalls < MaxBndCalls
  /\ Len(bFrames) < MaxNesting
  /\ LET boundary == Len(bFrames) + 1
         entry == BoundaryStack(bTop, bPrev, MaxNesting + 1)
         pushed == yaep_error_boundary_push(bTop, bPrev, boundary)
         popped == yaep_error_boundary_pop(pushed.top, pushed.prev)
     IN IF fn_null
          THEN /\ bTop' = popped.top
               /\ bPrev' = popped.prev
               /\ bLast' = [NoBndCall EXCEPT
                              !.op = "run", !.how = "no function", !.ret = 0,
                              !.depth = boundary, !.entry_stack = entry,
                              !.exit_stack = BoundaryStack(popped.top, popped.prev,
                                                           MaxNesting + 1)]
               /\ UNCHANGED bFrames
          ELSE /\ bTop' = pushed.top
               /\ bPrev' = pushed.prev
               /\ bFrames' = Append(bFrames, [boundary |-> boundary, entry_stack |-> entry])
               /\ bLast' = [NoBndCall EXCEPT !.op = "enter", !.depth = boundary]
  /\ bCalls' = bCalls + 1
  /\ UNCHANGED bAborted
  /\ UNCHANGED notBndVars

\* The innermost protected function returns result: the call pops its boundary
\* and returns the result.
BndFnReturn(result) ==
  /\ ~bAborted
  /\ bFrames # <<>>
  /\ LET frame == bFrames[Len(bFrames)]
         popped == yaep_error_boundary_pop(bTop, bPrev)
     IN /\ bTop' = popped.top
        /\ bPrev' = popped.prev
        /\ bLast' = [NoBndCall EXCEPT
                       !.op = "run", !.how = "return", !.value = result,
                       !.ret = result, !.depth = Len(bFrames),
                       !.entry_stack = frame.entry_stack,
                       !.exit_stack = BoundaryStack(popped.top, popped.prev,
                                                    MaxNesting + 1)]
  /\ bFrames' = SubSeq(bFrames, 1, Len(bFrames) - 1)
  /\ UNCHANGED <<bCalls, bAborted>>
  /\ UNCHANGED notBndVars

\* yaep_error_boundary_raise(code): abort() without a boundary; else longjmp
\* to the call that owns the top boundary, which pops it and returns what
\* setjmp gave.  The calls inside that one are abandoned.
BndRaise(code) ==
  /\ ~bAborted
  /\ bCalls < MaxBndCalls
  /\ LET owners == {k \in DOMAIN bFrames : bFrames[k].boundary = bTop}
     IN IF bTop = 0 \/ owners = {}
          THEN /\ bAborted' = TRUE
               /\ bLast' = [NoBndCall EXCEPT !.op = "abort", !.value = code]
               /\ UNCHANGED <<bTop, bPrev, bFrames>>
          ELSE LET k == CHOOSE x \in owners : \A y \in owners : y <= x
                   popped == yaep_error_boundary_pop(bTop, bPrev)
               IN /\ bTop' = popped.top
                  /\ bPrev' = popped.prev
                  /\ bFrames' = SubSeq(bFrames, 1, k - 1)
                  /\ bLast' = [NoBndCall EXCEPT
                                 !.op = "run", !.how = "raise", !.value = code,
                                 !.ret = setjmp_after_longjmp(code),
                                 !.depth = Len(bFrames), !.target = k,
                                 !.entry_stack = bFrames[k].entry_stack,
                                 !.exit_stack = BoundaryStack(popped.top, popped.prev,
                                                              MaxNesting + 1)]
                  /\ UNCHANGED bAborted
  /\ bCalls' = bCalls + 1
  /\ UNCHANGED notBndVars

\* active = yaep_error_boundary_is_active().
BndIsActive ==
  /\ ~bAborted
  /\ bCalls < MaxBndCalls
  /\ bLast' = [NoBndCall EXCEPT !.op = "is_active",
                                !.ret = yaep_error_boundary_is_active(bTop),
                                !.depth = Len(bFrames)]
  /\ bCalls' = bCalls + 1
  /\ UNCHANGED <<bTop, bPrev, bFrames, bAborted>>
  /\ UNCHANGED notBndVars

BndNext ==
  \/ \E fn_null \in BOOLEAN : BndRunEnter(fn_null)
  \/ \E result \in FnResults : BndFnReturn(result)
  \/ \E code \in RaiseCodes : BndRaise(code)
  \/ BndIsActive

(***************************************************************************)
(* SPECIFICATIONS                                                          *)
(***************************************************************************)

LeoIdle == LeoInit0

LeoInit == LeoInit0 /\ ErrIdle /\ GramIdle /\ ParseIdle /\ PoolIdle /\ UtfIdle /\ BndIdle

SpecLeo == LeoInit /\ [][LeoNext]_vars

ErrInit == ErrInit0 /\ LeoIdle /\ GramIdle /\ ParseIdle /\ PoolIdle /\ UtfIdle /\ BndIdle

SpecErr == ErrInit /\ [][ErrNext]_vars

GramInit == GramInit0 /\ LeoIdle /\ ErrIdle /\ ParseIdle /\ PoolIdle /\ UtfIdle /\ BndIdle

SpecGram == GramInit /\ [][GramNext]_vars

ParseInit == ParseInit0 /\ LeoIdle /\ ErrIdle /\ GramIdle /\ PoolIdle /\ UtfIdle /\ BndIdle

SpecParse == ParseInit /\ [][ParseNext]_vars

PoolInit == PoolInit0 /\ LeoIdle /\ ErrIdle /\ GramIdle /\ ParseIdle /\ UtfIdle /\ BndIdle

SpecPool == PoolInit /\ [][PoolNext]_vars

UtfInit == UtfInit0 /\ LeoIdle /\ ErrIdle /\ GramIdle /\ ParseIdle /\ PoolIdle /\ BndIdle

SpecUtf == UtfInit /\ [][UtfNext]_vars

SpecTrunc == UtfInit /\ [][TruncNext]_vars

BndInit == BndInit0 /\ LeoIdle /\ ErrIdle /\ GramIdle /\ ParseIdle /\ PoolIdle /\ UtfIdle

SpecBnd == BndInit /\ [][BndNext]_vars

\* The loop "while (yaep_utf8_next(&p) != YAEP_CODEPOINT_EOS)": the client
\* keeps calling.
SpecUtfLoop == UtfInit /\ [][Utf8Next]_vars /\ WF_vars(Utf8Next)

(***************************************************************************)
(* C10: a Leo item exists only for deterministic completions.  Every item  *)
(* of the Leo table was created by a leo_try_completion call whose waiting *)
(* vector held exactly one situation, and a call with zero or more than    *)
(* one waiter returns 0 and leaves the table as it was.                    *)
(***************************************************************************)
C10_LeoOnlyDeterministic ==
  /\ \A it \in leo.leo_item_table :
       \E m \in leoMade :
         /\ m.origin = it.origin /\ m.symbol = it.symbol /\ m.sit = it.sit
         /\ m.n_waiting = 1
  /\ \A m \in leoMade : m.n_waiting = 1
  /\ (leoCall.made /\ ~leoCall.null /\ leoCall.n_waiting # 1)
       => (leoCall.ret = 0 /\ leo.leo_item_table = leoCall.before)

\* A call with two waiters was made on an enabled context that already holds an
\* item created by a deterministic completion.
C10_Witness ==
  /\ leoCall.made /\ leoCall.n_waiting = 2
  /\ leo.initialized /\ leo.enabled
  /\ leo.leo_item_table # {}

(***************************************************************************)
(* C11: whenever leo_try_completion reports a completion as handled        *)
(* (returns 1), that call has inserted the advanced variant of the topmost *)
(* waiting situation, the one the Leo item of the key holds, into the      *)
(* current Earley set.                                                     *)
(***************************************************************************)

\* The situation the Leo item of the last call's key holds.
LeoTopmost ==
  (CHOOSE it \in leo.leo_item_table :
     it.origin = leoCall.set_num /\ it.symbol = leoCall.symbol).sit

C11_HandledCompletionInserted ==
  (leoCall.made /\ leoCall.ret = 1) =>
    LeoAdvance(LeoTopmost) \in (leoSet \ leoCall.set_before)

(***************************************************************************)
(* C12: when the single waiting situation's rule still has right-hand-side *)
(* symbols after the awaited nonterminal, leo_try_completion returns 0 and *)
(* creates no Leo item.                                                    *)
(***************************************************************************)
C12_LeoFallsBackOnRemainingSymbols ==
  (/\ leoCall.made /\ ~leoCall.null /\ leoCall.n_waiting = 1
   /\ SitRemaining(CoreSitAt(leoCall.els[1])) > 0) =>
    /\ leoCall.ret = 0
    /\ leo.leo_item_table = leoCall.before

(***************************************************************************)
(* C13: on an initialised context the Leo statistics count what happened   *)
(* since the last leo_init/leo_clear: n_leo_completions is the number of   *)
(* leo_try_completion calls that found exactly one waiter, n_leo_items the *)
(* number of Leo items created; so after at least one deterministic        *)
(* completion with no failed allocation leo_get_stats reports n_items >= 1 *)
(* and n_completions >= 1.                                                 *)
(***************************************************************************)
C13_LeoStatsCount ==
  leo.initialized =>
    /\ leo.n_leo_completions = leoSeen.deterministic
    /\ leo.n_leo_items = leoSeen.created
    /\ leo_get_stats(leo).n_completions = leoSeen.deterministic
    /\ leo_get_stats(leo).n_items = leoSeen.created
    /\ (leoSeen.deterministic >= 1 /\ ~leoSeen.alloc_failed) =>
         /\ leo_get_stats(leo).n_items >= 1
         /\ leo_get_stats(leo).n_completions >= 1

\* Two deterministic completions of one key: two completions counted, one item.
C13_Witness ==
  /\ leo.initialized /\ leo.enabled
  /\ leoSeen.deterministic = 2 /\ leoSeen.created = 1
  /\ leo_get_stats(leo) = [n_items |-> 1, n_completions |-> 2]

(***************************************************************************)
(* C14: Leo state is per parse.  After leo_clear on an initialised context *)
(* both counters are 0, no item created before the clear can be found, a   *)
(* key used before the clear is treated as new by the next deterministic   *)
(* completion, and the enabled and initialized flags are as they were.     *)
(***************************************************************************)
C14_LeoClearPerParse ==
  leoCall.cleared =>
    /\ leo.n_leo_items = 0 /\ leo.n_leo_completions = 0
    /\ <<leo.enabled, leo.initialized>> = leoCall.flags
    /\ \A it \in leoCall.before :
         /\ leo_lookup(leo, it.origin, it.symbol) = {}
         /\ leo.enabled =>
              LET next == leo_try_completion(leo, [null |-> FALSE, lhs |-> it.symbol],
                                             it.origin,
                                             [null |-> FALSE, els |-> <<0>>], TRUE)
              IN /\ next.ctx.n_leo_items = 1
                 /\ next.ctx.n_leo_completions = 1
                 /\ \E n \in leo_lookup(next.ctx, it.origin, it.symbol) :
                      n.sit = CoreSitAt(0)

\* leo_clear has run on an enabled context that held a Leo item.
C14_Witness ==
  /\ leoCall.cleared /\ leoCall.before # {}
  /\ leo.enabled /\ leo.initialized

(***************************************************************************)
(* C8: the error context is per thread.  Whenever a thread is outside a    *)
(* set/clear call, the error code, message and grammar pointer it reads    *)
(* from its error context are those of its own most recent set/clear call, *)
(* whatever the other thread has written in between.                       *)
(***************************************************************************)
C8_ErrorContextPerThread ==
  \A t \in Threads :
    errPc[t] = "idle" => ErrRead(t) = errOwn[t]

\* Thread 1 has finished a yaep_set_error for its grammar and reads it back
\* after thread 2 has finished a set of a different error for another grammar.
C8_Witness ==
  /\ errPc[1] = "idle" /\ errPc[2] = "idle"
  /\ errCalls[1] = 1 /\ errCalls[2] = 2
  /\ errOwn[1].error_code = "NoMemory" /\ errOwn[1].grammar_ctx = "g1"
  /\ errOwn[2].error_code = "ParseSyntax" /\ errOwn[2].grammar_ctx = "g2"
  /\ ErrRead(1).error_code = "NoMemory"


(***************************************************************************)
(* Reference notions for the front-end claims, taken from the Unicode      *)
(* Standard and independent of the validator and the normalizer.           *)
(***************************************************************************)

\* Table 3-7 of the Unicode Standard: the length of the well-formed byte
\* sequence starting at position i, 0 when there is none.
WellFormedLen(s, i) ==
  LET a == ByteAt(s, i)
      b == ByteAt(s, i + 1)
      c == ByteAt(s, i + 2)
      d == ByteAt(s, i + 3)
      T(x) == x \in 128..191
  IN  CASE a \in 1..127 -> 1
        [] a \in 194..223 /\ T(b) -> 2
        [] a = 224 /\ b \in 160..191 /\ T(c) -> 3
        [] a \in 225..236 /\ T(b) /\ T(c) -> 3
        [] a = 237 /\ b \in 128..159 /\ T(c) -> 3
        [] a \in 238..239 /\ T(b) /\ T(c) -> 3
        [] a = 240 /\ b \in 144..191 /\ T(c) /\ T(d) -> 4
        [] a \in 241..243 /\ T(b) /\ T(c) /\ T(d) -> 4
        [] a = 244 /\ b \in 128..143 /\ T(c) /\ T(d) -> 4
        [] OTHER -> 0

RECURSIVE WellFormedFrom(_, _)
WellFormedFrom(s, i) ==
  IF i > Len(s) THEN TRUE
  ELSE LET n == WellFormedLen(s, i)
       IN  n # 0 /\ i + n - 1 <= Len(s) /\ WellFormedFrom(s, i + n)

WellFormedUtf8(s) == WellFormedFrom(s, 1)

\* Canonical equivalence: equal canonical decompositions.
CanonEquivalent(a, b) ==
  DecomposeAll(DecodeFrom(a, 1)) = DecomposeAll(DecodeFrom(b, 1))

\* The names the description of the last call declares, in order.
DeclaredNames == LexFrom(gDesc, 1)

\* The last description declares two canonically equivalent terminal names.
DeclaresEquivalentPair ==
  /\ WellFormedUtf8(gDesc)
  /\ \A k \in 1..Len(DeclaredNames) : DeclaredNames[k].kind = "ident"
  /\ \E i, j \in 1..Len(DeclaredNames) :
       i < j /\ CanonEquivalent(DeclaredNames[i].text, DeclaredNames[j].text)

MessageContains(msg, part) == \E k \in 1..Len(msg) : msg[k] = part

(***************************************************************************)
(* C6: a description with an ill-formed UTF-8 sequence makes parse_grammar *)
(* return InvalidUtf8 with a message containing "invalid UTF-8", without   *)
(* ever starting to ingest: the symbol and rule tables are those the       *)
(* handle had before the call.                                             *)
(***************************************************************************)
C6_InvalidUtf8Rejected ==
  (gCalls > 0 /\ ~WellFormedUtf8(gDesc)) =>
    /\ gPc = "idle"
    /\ gRet = "InvalidUtf8"
    /\ gErr.code = "InvalidUtf8"
    /\ MessageContains(gErr.msg, "invalid UTF-8")
    /\ gram = gBefore

\* A handle that already holds symbols and a rule is given a description that
\* declares a name and then ends in a lone 0xC3.
C6_Witness ==
  /\ gCalls = 2 /\ gPc = "idle"
  /\ gBefore.terms # {} /\ gBefore.rules # {}
  /\ Len(gDesc) >= 2 /\ gDesc[1] = 65 /\ gDesc[Len(gDesc)] = 195
  /\ gRet = "InvalidUtf8"
  /\ gram = gBefore

(***************************************************************************)
(* C7: names are compared after NFC normalization.  When a description     *)
(* declares two terminals with canonically equivalent names, the call ends *)
(* with RepeatedTermDecl as return value and as the handle's error code,   *)
(* and the table never holds two canonically equivalent names.             *)
(***************************************************************************)
C7_NfcNamesCollide ==
  /\ (gCalls > 0 /\ gPc = "idle" /\ DeclaresEquivalentPair) =>
       (gRet = "RepeatedTermDecl" /\ gErr.code = "RepeatedTermDecl")
  /\ \A a, b \in gram.terms : CanonEquivalent(a, b) => a = b

\* U+00C5 and then "A" U+030A are declared on a fresh handle: one symbol,
\* RepeatedTermDecl.
C7_Witness ==
  /\ gCalls = 1 /\ gPc = "idle"
  /\ gDesc = <<195, 133, 32, 65, 204, 138>>
  /\ gram.terms = {<<195, 133>>}
  /\ gRet = "RepeatedTermDecl"


(***************************************************************************)
(* Reference notions for the parser claims: the language of a grammar by   *)
(* derivation, independent of the parser list.                             *)
(***************************************************************************)

MinLenOf(g, syms) == Cardinality({k \in DOMAIN syms : syms[k] \notin g.nullable})

RECURSIVE DerivesSeq(_, _, _)
RECURSIVE DerivesSym(_, _, _)

\* The token string u is derived from the symbol x.
DerivesSym(g, x, u) ==
  IF x \notin g.nonterms THEN u = <<x>>
  ELSE \E r \in RuleIds(g) : Lhs(g, r) = x /\ DerivesSeq(g, Rhs(g, r), u)

\* The token string u is derived from the symbol string syms: some split gives
\* the first symbol a prefix and the rest what remains.
DerivesSeq(g, syms, u) ==
  IF syms = <<>> THEN u = <<>>
  ELSE \E k \in MinLenOf(g, <<Head(syms)>>)..(Len(u) - MinLenOf(g, Tail(syms))) :
         /\ DerivesSym(g, Head(syms), SubSeq(u, 1, k))
         /\ DerivesSeq(g, Tail(syms), SubSeq(u, k + 1, Len(u)))

\* w is in L(g).
InLanguage(g, w) == DerivesSeq(g, Rhs(g, 1), w)

Returned == pRc # "none"

LifecycleSteps ==
  {<<"Init", "BuildingList">>,
   <<"BuildingList", "Accepting">>, <<"BuildingList", "ErrorRecovering">>,
   <<"BuildingList", "Failed">>,
   <<"ErrorRecovering", "BuildingList">>, <<"ErrorRecovering", "Accepting">>,
   <<"ErrorRecovering", "Failed">>,
   <<"Accepting", "Init">>, <<"Failed", "Init">>}

C3_Lifecycle ==
  [][/\ pPhase' # pPhase => <<pPhase, pPhase'>> \in LifecycleSteps
     /\ (pPhase \in {"Accepting", "Failed"} /\ pPhase' = "Init") =>
          /\ engine'.grammar = engine.grammar
          /\ engine'.grammar = pGrammar'.id]_vars

\* A handle back in Init after a parse that went through error recovery, its
\* engine still on the grammar it was created with.
C3_Witness ==
  /\ pPhase = "Init" /\ pPrev.valid /\ pPrev.events > 0 /\ pPrev.cfg.recovery
  /\ pPrev.rc = "0"
  /\ engine.grammar = 6 /\ PG.id = 6

(***************************************************************************)
(* C4: with recovery disabled, when no situation of the current set can    *)
(* scan the incoming token, parse returns ParseSyntax, and before it       *)
(* returns the syntax-error callback has been invoked with the number of   *)
(* the failing token and start_ignored_tok_num = -1.                       *)
(***************************************************************************)

\* The token strings that can follow a prefix within the bound.
Completions(g) == SeqsUpTo(g.terms \ {"$error"}, MaxLen)

\* u can be continued to a sentence of g.
ViablePrefix(g, u) == \E v \in Completions(g) : InLanguage(g, u \o v)

\* The first token no sentence has at its place, Len(w) if w is a viable
\* prefix throughout.
FailingToken(g, w) ==
  CHOOSE e \in 0..Len(w) :
    /\ ViablePrefix(g, SubSeq(w, 1, e))
    /\ e < Len(w) => ~ViablePrefix(g, SubSeq(w, 1, e + 1))

C4_SyntaxErrorReported ==
  ~pCfg.recovery =>
    /\ (pPhase \in {"Accepting", "Failed"} /\ ~CanScan /\ ~(AtEnd /\ Accepts(PG, LastSet))) =>
         /\ pCode = "ParseSyntax"
         /\ Returned => pRc = "ParseSyntax"
    /\ pCode = "ParseSyntax" =>
         /\ pCalls = <<SyntaxErrorCall(FailingToken(PG, pInput), -1, -1)>>
         /\ pCalls[1].err_tok_num = pTok
         /\ ~CanScan

\* The second token of "b b" cannot be scanned for S : S 'a' | 'b'; the callback
\* has been invoked and parse has not returned yet.
C4_Witness ==
  /\ ~pCfg.recovery /\ pPhase = "Failed" /\ ~Returned
  /\ PG.id = 2 /\ pInput = <<"b", "b">>
  /\ pCalls = <<SyntaxErrorCall(1, -1, -1)>>

(***************************************************************************)
(* C5: with recovery enabled the syntax-error callback is invoked exactly  *)
(* once per error event, also when parse returns 0, and the forest of an   *)
(* accepted parse has one ERROR node per recovery point.                   *)
(***************************************************************************)

\* The recoveries the callback has reported: invocations with ignored tokens.
RecoveriesReported == {k \in DOMAIN pCalls : pCalls[k].start_ignored_tok_num >= 0}

\* The recovery points that are part of the parser list: the sets entered
\* over the error terminal.
RecoveryPointsKept == {k \in DOMAIN pList : pList[k].via.sym = "$error"}

C26_LeoAlwaysFallsBack ==
  leoCall.made => (leoCall.ret = 0 /\ leo.leo_item_table = leoCall.before)

(***************************************************************************)
(* C27: Leo items are unique per key.  Between two clears the table holds  *)
(* at most one item for each (set index, nonterminal) key and n_leo_items  *)
(* is the number of items in the table; a deterministic completion whose   *)
(* key already has an item returns 1, adds one to n_leo_completions and    *)
(* leaves n_leo_items and the table as they were.                          *)
(***************************************************************************)
LeoKeyKnown ==
  /\ leoCall.made /\ ~leoCall.null /\ leoCall.n_waiting = 1
  /\ leoCall.flags = <<TRUE, TRUE>>
  /\ \E it \in leoCall.before :
       it.origin = leoCall.set_num /\ it.symbol = leoCall.symbol

C15_PoolLifoReuse ==
  /\ (poolLast.op = "alloc" /\ ~poolLast.null_pool /\ ~poolLast.before.seen.misused) =>
       IF poolLast.before.seen.stack # <<>>
         THEN /\ poolLast.ret_item = Head(poolLast.before.seen.stack)
              /\ pool.blocks = poolLast.before.pool.blocks
              /\ pool.current_offset = poolLast.before.pool.current_offset
         ELSE \/ poolLast.ret_item = 0
              \/ /\ poolLast.ret_item \notin poolLast.before.seen.handed
                 /\ poolLast.ret_item
                      = ItemAddr(pool, pool.current_block, pool.current_offset - 1)
  /\ (poolLast.op = "free" /\ ~poolLast.null_pool /\ poolLast.item # 0) =>
       pool_alloc(pool, poolMem, 0).item = poolLast.item

\* The same for every sequence of operations, an item freed twice included:
\* the second free makes the item its own successor in the free list, which
\* then never becomes empty.
C15_PoolLifoReuseAnySequence ==
  (poolLast.op = "alloc" /\ ~poolLast.null_pool) =>
    IF poolLast.before.seen.stack # <<>>
      THEN /\ poolLast.ret_item = Head(poolLast.before.seen.stack)
           /\ pool.blocks = poolLast.before.pool.blocks
           /\ pool.current_offset = poolLast.before.pool.current_offset
      ELSE \/ poolLast.ret_item = 0
           \/ /\ poolLast.ret_item \notin poolLast.before.seen.handed
              /\ poolLast.ret_item
                   = ItemAddr(pool, pool.current_block, pool.current_offset - 1)

\* Two freed items waited; the allocation returned the one freed last and the
\* other still waits.
C15_Witness ==
  /\ poolLast.op = "alloc" /\ ~poolLast.null_pool /\ ~poolSeen.misused
  /\ Len(poolLast.before.seen.stack) = 2
  /\ poolLast.ret_item = Head(poolLast.before.seen.stack)
  /\ pool.free_list = poolLast.before.seen.stack[2]

(***************************************************************************)
(* C16: the pool never hands out an item that is still live.  As long as   *)
(* only items the client holds are freed, the items allocated and not      *)
(* freed are pairwise distinct and do not overlap, also across blocks.     *)
(***************************************************************************)
C16_PoolNoLiveItemTwice ==
  (~pool.null /\ ~poolSeen.misused) =>
    /\ Cardinality(poolLive) = poolSeen.returned - poolSeen.freed
    /\ \A a, b \in poolLive :
         a # b => (a + pool.item_size <= b \/ b + pool.item_size <= a)
    /\ (poolLast.op = "alloc" /\ ~poolLast.null_pool /\ poolLast.ret_item # 0) =>
         poolLast.ret_item \notin poolLast.before.live

\* Three live items in two blocks, one of them a reused item.
C16_Witness ==
  /\ ~pool.null /\ ~poolSeen.misused
  /\ Len(pool.blocks) = 2 /\ Cardinality(poolLive) = 3
  /\ poolSeen.reused = 1

(***************************************************************************)
(* C17: the pool statistics are exact.  total_allocated is the number of   *)
(* pool_alloc calls that returned an item, total_freed the number of       *)
(* pool_free calls with a pool and an item, and free_list_length is        *)
(* total_freed minus the allocations served from the free list.  Stated    *)
(* for sequences in which no item is freed twice without being allocated   *)
(* again in between.                                                       *)
(***************************************************************************)
C17_PoolStatsExact ==
  (~pool.null /\ ~poolSeen.misused) =>
    /\ pool_stats(pool, poolMem).total_allocated = poolSeen.returned
    /\ pool_stats(pool, poolMem).total_freed = poolSeen.freed
    /\ pool_stats(pool, poolMem).free_list_length = poolSeen.freed - poolSeen.reused
    /\ (poolLast.op = "stats" /\ ~poolLast.null_pool) =>
         poolLast.ret_stats = pool_stats(pool, poolMem)

\* The same for every sequence of operations, an item freed twice included:
\* the walk over the free list then never reaches its end.
C17_PoolStatsExactAnySequence ==
  ~pool.null =>
    /\ pool_stats(pool, poolMem).total_allocated = poolSeen.returned
    /\ pool_stats(pool, poolMem).total_freed = poolSeen.freed
    /\ pool_stats(pool, poolMem).free_list_length = poolSeen.freed - poolSeen.reused

\* Three allocations in two blocks, a free and a reuse, then pool_stats:
\* 4, 1, 2, 0.
C17_Witness ==
  /\ poolLast.op = "stats" /\ ~poolLast.null_pool
  /\ poolLast.ret_stats = [total_allocated |-> 4, total_freed |-> 1,
                           blocks_allocated |-> 2, free_list_length |-> 0]

(***************************************************************************)
(* C18: blocks are allocated lazily.  blocks_allocated is 0 after          *)
(* pool_create and, while the host allocator has not failed, equals the    *)
(* number of pool_alloc calls not served from the free list divided by     *)
(* items_per_block, rounded up.                                            *)
(***************************************************************************)
CeilDiv(a, b) == (a + b - 1) \div b

C18_PoolBlocksLazy ==
  (~pool.null /\ ~poolSeen.host_failed) =>
    /\ pool.blocks_allocated = CeilDiv(poolSeen.fresh_calls, pool.items_per_block)
    /\ pool_stats(pool, poolMem).blocks_allocated = pool.blocks_allocated
    /\ Cardinality(poolHost.blocks) = pool.blocks_allocated
    /\ poolLast.op = "create" => pool.blocks_allocated = 0

\* Three allocations that were not served from the free list and one that was,
\* two items per block: two blocks.
C18_Witness ==
  /\ ~pool.null /\ ~poolSeen.host_failed
  /\ pool.items_per_block = 2 /\ poolSeen.fresh_calls = 3 /\ poolSeen.reused = 1
  /\ pool.blocks_allocated = 2

(***************************************************************************)
(* C19: pool_free gives no memory back to the host.  It leaves the block   *)
(* list, blocks_allocated, the current block, the current offset and       *)
(* total_allocated as they were; no block is released while the pool       *)
(* lives, and pool_destroy releases every block exactly once.              *)
(***************************************************************************)
C19_PoolFreeKeepsBlocks ==
  /\ (poolLast.op = "free" /\ ~poolLast.null_pool) =>
       /\ pool.blocks = poolLast.before.pool.blocks
       /\ pool.blocks_allocated = poolLast.before.pool.blocks_allocated
       /\ pool.current_block = poolLast.before.pool.current_block
       /\ pool.current_offset = poolLast.before.pool.current_offset
       /\ pool.total_allocated = poolLast.before.pool.total_allocated
       /\ poolHost = poolLast.before.host
  /\ ~pool.null =>
       /\ \A b \in DOMAIN poolHost.released : poolHost.released[b] = 0
       /\ poolHost.blocks = {pool.blocks[k] : k \in DOMAIN pool.blocks}
       /\ poolHost.struct
  /\ (poolLast.op = "destroy" /\ ~poolLast.null_pool) =>
       /\ \A b \in DOMAIN poolHost.released : poolHost.released[b] = 1
       /\ DOMAIN poolHost.released = poolLast.before.host.blocks
       /\ poolHost.blocks = {}
       /\ ~poolHost.struct

\* A pool with two blocks and a freed item has been destroyed.
C19_Witness ==
  /\ poolLast.op = "destroy" /\ ~poolLast.null_pool
  /\ Len(poolHost.released) = 2
  /\ poolLast.before.seen.freed = 1
  /\ poolLast.before.pool.free_list # 0

(***************************************************************************)
(* C20: invalid arguments are rejected without effect.  pool_create gives  *)
(* NULL for item_size 0 or items_per_block 0; pool_alloc(NULL) gives NULL; *)
(* pool_free with a NULL pool or a NULL item and pool_destroy(NULL) leave  *)
(* the pool, the items and the host's blocks as they were.                 *)
(***************************************************************************)
PoolUntouched ==
  /\ pool = poolLast.before.pool
  /\ poolMem = poolLast.before.mem
  /\ poolHost = poolLast.before.host
  /\ poolLive = poolLast.before.live

C20_PoolRejectsInvalid ==
  /\ (poolLast.op = "create"
        /\ (poolLast.item_size = 0 \/ poolLast.items_per_block = 0)) =>
       pool.null /\ poolHost = poolLast.before.host
  /\ (poolLast.op = "alloc" /\ poolLast.null_pool) =>
       poolLast.ret_item = 0 /\ PoolUntouched
  /\ (poolLast.op = "free" /\ (poolLast.null_pool \/ poolLast.item = 0)) =>
       PoolUntouched
  /\ (poolLast.op = "destroy" /\ poolLast.null_pool) => PoolUntouched

\* pool_free(NULL, item) with an item of a live pool whose free list is not
\* empty.
C20_Witness ==
  /\ poolLast.op = "free" /\ poolLast.null_pool /\ poolLast.item # 0
  /\ ~pool.null /\ pool.free_list # 0
  /\ poolLast.item \in poolLive

(***************************************************************************)
(* C29: a host allocation failure during pool_alloc is reported and leaves *)
(* the pool usable.  The call returns NULL; total_allocated, total_freed,  *)
(* blocks_allocated and the free list are as before; every item handed out *)
(* earlier still lies in a block the host has not taken back; and a later  *)
(* pool_alloc that gets an item gets one apart from all live items (for    *)
(* clients that free only items they hold).                                *)
(***************************************************************************)
ItemInHostBlock(pl, host, a) ==
  \E b \in host.blocks :
    /\ host.released[b] = 0
    /\ HostBase(pl, b) + PointerSize <= a
    /\ a + pl.item_size <= HostBase(pl, b + 1)

C29_PoolSurvivesHostFailure ==
  /\ (poolLast.op = "alloc" /\ ~poolLast.null_pool /\ poolLast.host_refused) =>
       /\ poolLast.ret_item = 0
       /\ pool.total_allocated = poolLast.before.pool.total_allocated
       /\ pool.total_freed = poolLast.before.pool.total_freed
       /\ pool.blocks_allocated = poolLast.before.pool.blocks_allocated
       /\ pool.free_list = poolLast.before.pool.free_list
       /\ pool.blocks = poolLast.before.pool.blocks
       /\ poolMem = poolLast.before.mem
       /\ poolHost = poolLast.before.host
       /\ poolLive = poolLast.before.live
  /\ (~pool.null /\ poolSeen.host_failed) =>
       \A a \in poolSeen.handed : ItemInHostBlock(pool, poolHost, a)
  /\ (poolLast.op = "alloc" /\ ~poolLast.null_pool /\ poolLast.ret_item # 0
        /\ poolLast.before.seen.host_failed /\ ~poolLast.before.seen.misused) =>
       \A a \in poolLast.before.live :
         \/ a + pool.item_size <= poolLast.ret_item
         \/ poolLast.ret_item + pool.item_size <= a

\* After a refused block the host gave one: the pool has a new block and the
\* client holds at least two items.
C29_Witness ==
  /\ poolLast.op = "alloc" /\ ~poolLast.null_pool /\ poolLast.ret_item # 0
  /\ poolLast.before.seen.host_failed /\ ~poolSeen.misused
  /\ pool.blocks_allocated = poolLast.before.pool.blocks_allocated + 1
  /\ poolLast.before.pool.blocks_allocated >= 1
  /\ Cardinality(poolLive) >= 2

(***************************************************************************)
(* Reference notion for the validator: the walk over the well-formed       *)
(* sequences of Table 3-7 from the start of the string; where it stops,    *)
(* how many code points it passed, and whether it reached the end.         *)
(***************************************************************************)
RECURSIVE WellFormedPrefix(_, _, _)
WellFormedPrefix(s, i, count) ==
  IF i > Len(s) THEN [whole |-> TRUE, offset |-> i - 1, count |-> count]
  ELSE LET n == WellFormedLen(s, i)
       IN  IF n = 0 \/ i + n - 1 > Len(s)
             THEN [whole |-> FALSE, offset |-> i - 1, count |-> count]
             ELSE WellFormedPrefix(s, i + n, count + 1)

EndsWithEllipsis(out) ==
  Len(out) >= 3 /\ SubSeq(out, Len(out) - 2, Len(out)) = Ellipsis

(***************************************************************************)
(* C21: truncation is UTF-8-safe.  For a well-formed string and a buffer   *)
(* of at least one byte, yaep_utf8_truncate_safe leaves a string of at     *)
(* most dst_size - 1 bytes that is well-formed UTF-8.                      *)
(***************************************************************************)
C21_TruncationUtf8Safe ==
  (uCall.op = "truncate" /\ uCall.dst_size >= 1 /\ WellFormedUtf8(uStr)) =>
    /\ Len(uCall.out) <= uCall.dst_size - 1
    /\ WellFormedUtf8(uCall.out)

(***************************************************************************)
(* C22: a truncated message is marked.  For a buffer of at least four      *)
(* bytes, a string that does not fit in dst_size - 1 bytes gives 0 and an  *)
(* output that is not empty and ends with "..."; a string that fits gives  *)
(* 1 and is copied unchanged.                                              *)
(***************************************************************************)
C22_TruncationMarked ==
  (uCall.op = "truncate" /\ uCall.dst_size >= 4) =>
    IF Len(uStr) > uCall.dst_size - 1
      THEN uCall.ret = 0 /\ uCall.out # <<>> /\ EndsWithEllipsis(uCall.out)
      ELSE uCall.ret = 1 /\ uCall.out = uStr

(***************************************************************************)
(* C23: yaep_utf8_validate returns 1 exactly for the well-formed strings.  *)
(* On failure it gives the byte offset of the first ill-formed sequence,   *)
(* the number of code points before it and a negative error code; on       *)
(* success the number of code points of the string and error code 0.       *)
(***************************************************************************)
C23_ValidateLocatesFirstError ==
  uCall.op = "validate" =>
    LET w == WellFormedPrefix(uStr, 1, 0)
        v == uCall.valid
    IN /\ (v.ret = 1) <=> w.whole
       /\ v.ret \in {0, 1}
       /\ v.len = w.count
       /\ v.ret = 0 => (v.error_offset = w.offset /\ v.error_code < 0)
       /\ v.ret = 1 => v.error_code = 0

\* A two-byte character, then a surrogate: the error is at offset 2 after one
\* code point.
C23_Witness ==
  /\ uCall.op = "validate"
  /\ Len(uStr) = 5 /\ uStr[1] = 195 /\ uStr[3] = 237 /\ uStr[4] = 169 /\ uStr[5] = 133
  /\ uCall.valid.ret = 0 /\ uCall.valid.error_offset = 2 /\ uCall.valid.len = 1

(***************************************************************************)
(* C28: iterating with yaep_utf8_next terminates on every string.  A call  *)
(* at the NUL returns EOS and does not move the pointer; every other call  *)
(* moves it forward by at least one byte, by exactly one when it returns   *)
(* INVALID, and never beyond the NUL; so the loop that calls until EOS     *)
(* reaches the NUL.                                                        *)
(***************************************************************************)
Utf8NextStepOk ==
  uCall.op = "next" =>
    /\ ByteAt(uStr, uCall.pos) = 0 =>
         (uCall.cp = YAEP_CODEPOINT_EOS /\ uPos = uCall.pos)
    /\ uCall.cp # YAEP_CODEPOINT_EOS =>
         /\ uPos >= uCall.pos + 1
         /\ uPos <= Len(uStr) + 1
         /\ uCall.cp = YAEP_CODEPOINT_INVALID => uPos = uCall.pos + 1

C28_IterationTerminates ==
  /\ []Utf8NextStepOk
  /\ <>(uCall.op = "next" /\ uCall.cp = YAEP_CODEPOINT_EOS /\ uPos = Len(uStr) + 1)

\* The loop has passed an undecodable byte and a three-byte character and has
\* got EOS at the NUL.
C28_Witness ==
  /\ uCall.op = "next" /\ uCall.cp = YAEP_CODEPOINT_EOS
  /\ uStr = <<133, 237, 133, 169>>
  /\ uPos = 5

(***************************************************************************)
(* C30: yaep_utf8_next_with_len reads no byte beyond the NUL of its input, *)
(* also when the string ends in a lead byte with fewer continuation bytes  *)
(* than it announces.                                                      *)
(***************************************************************************)
C30_NextWithLenStaysInString ==
  uCall.op = "next_with_len" => uCall.last_read <= Len(uStr) + 1

(***************************************************************************)
(* C24: the error-boundary stack is balanced.  When a                      *)
(* yaep_run_with_error_boundary call returns, after a normal return of the *)
(* protected function or after a raise inside it, the boundary stack is    *)
(* the one the call found at entry; a raise goes to the innermost call     *)
(* whose function is running; and yaep_error_boundary_is_active is true    *)
(* exactly while a protected function is running.                          *)
(***************************************************************************)
C24_BoundaryStackBalanced ==
  /\ bLast.op = "run" => bLast.exit_stack = bLast.entry_stack
  /\ bLast.how = "raise" => bLast.target = bLast.depth
  /\ ~bAborted =>
       /\ (yaep_error_boundary_is_active(bTop) = 1) <=> (bFrames # <<>>)
       /\ BoundaryStack(bTop, bPrev, MaxNesting + 1)
            = [k \in 1..Len(bFrames) |-> bFrames[Len(bFrames) + 1 - k].boundary]
  /\ bLast.op = "is_active" => ((bLast.ret = 1) <=> (bLast.depth > 0))

\* A raise inside the inner of two protected functions has ended the inner
\* call; the outer function is still running under its boundary.
C24_Witness ==
  /\ bLast.op = "run" /\ bLast.how = "raise" /\ bLast.depth = 2
  /\ bLast.entry_stack = <<1>>
  /\ Len(bFrames) = 1 /\ bTop = 1

(***************************************************************************)
(* C25: the boundary turns an abort into a returned code.                  *)
(* yaep_run_with_error_boundary returns the protected function's result    *)
(* when it returns, and the code given to yaep_error_boundary_raise when   *)
(* it raises, for every code other than 0; a raise with code 0 makes the   *)
(* call return 1.                                                          *)
(***************************************************************************)
C25_RaisedCodeReturned ==
  bLast.op = "run" =>
    /\ bLast.how = "return" => bLast.ret = bLast.value
    /\ (bLast.how = "raise" /\ bLast.value # 0) => bLast.ret = bLast.value
    /\ (bLast.how = "raise" /\ bLast.value = 0) => bLast.ret = 1

\* The same for every code, 0 included.
C25_RaisedCodeReturnedEveryCode ==
  bLast.op = "run" =>
    /\ bLast.how = "return" => bLast.ret = bLast.value
    /\ bLast.how = "raise" => bLast.ret = bLast.value

\* A negative code raised inside a nested protected function.
C25_Witness ==
  /\ bLast.op = "run" /\ bLast.how = "raise"
  /\ bLast.value = -1 /\ bLast.ret = -1 /\ bLast.depth = 2

====
